---- MODULE Spec2Model ----
(***************************************************************************)
(* StaticVec: a fixed-capacity vector over an inline array of N            *)
(* MaybeUninit<T> slots plus a length counter (src/src/lib.rs), and its    *)
(* draining and owning iterators (src/src/iterators.rs).                   *)
(*                                                                         *)
(* Memory is modelled at the level the code works at: `data` holds the raw *)
(* contents of the N slots (an element identity, or Uninit), and a bitwise *)
(* read or block copy leaves the source slot's bytes where they were.      *)
(* Every element ever constructed has a unique identity; `status` records  *)
(* who owns it (the container, the caller, or nobody once dropped), and    *)
(* `err` latches the first memory-safety violation (a read of an           *)
(* uninitialised or moved-from slot, a second drop).                       *)
(***************************************************************************)
EXTENDS Integers, Sequences, FiniteSets, TLC

\* ------------------------------------------------------------------ bounds
MaxN == 3        \* largest capacity N explored by Spec
MaxElems == 4    \* elements constructed during one behaviour of Spec
OpsBudget == 1   \* elements constructed during one behaviour of SpecOps
TryBudget == 3   \* elements constructed during one behaviour of SpecTry
MaxSlice == 4    \* longest slice / source iterator handed to a bulk operation
MaxDrainN == 5   \* largest capacity N explored by SpecDrain
MaxDrains == 2   \* drain iterators created during one behaviour of SpecDrain
NumVals == 2     \* distinct element values (equality classes) for remove_item
RangeBudget == 2 \* elements constructed during one behaviour of SpecRange
FarLen == 97     \* a length far beyond every capacity, as an argument of truncate
CloneBudget == 3 \* elements constructed by clone during one behaviour of SpecClone
ZstCap == 16     \* capacity N of the containers of zero-size elements of SpecZst

VARIABLES
  N,        \* const generic capacity of the container's type
  alive,    \* TRUE while a container value exists
  data,     \* data: [MaybeUninit<T>; N], indexed 0..N-1
  length,   \* length: usize
  status,   \* ownership of every element identity
  nextId,   \* next unused element identity
  budget,   \* how many more elements this behaviour may construct
  err,      \* "ok", or the first memory-safety violation
  op,       \* the last operation, its arguments and what it returned
  pre,      \* the container's contents [0, length) before the last operation
            \* (for an iterator's steps: when the iterator was created)
  dr,       \* the StaticVecDrain created from the container, if any
  it,       \* the StaticVecIntoIter the container was turned into, if any
  bi        \* the StaticVecIterConst / StaticVecIterMut borrowing the container, if any

vars == <<N, alive, data, length, status, nextId, budget, err, op, pre, dr, it, bi>>

\* ----------------------------------------------------------------- helpers
Max(a, b) == IF a >= b THEN a ELSE b
Min(a, b) == IF a <= b THEN a ELSE b

Ids ==
  0 .. (Max(Max(MaxElems, ZstCap),
            MaxDrainN + Max(Max(OpsBudget, TryBudget), Max(RangeBudget, CloneBudget))) - 1)
Uninit == -1
Cells == 0 .. (N - 1)

Range(s) == {s[k] : k \in DOMAIN s}
NoDup(s) == \A i, j \in DOMAIN s : i # j => s[i] # s[j]

\* The value (equality class) an element compares by.
ValOf(id) == id % NumVals

\* Identities nextId, nextId+1, ..., nextId+k-1 as a sequence.
Fresh(k) == [j \in 1..k |-> nextId + j - 1]

\* as_slice: the inhabited area [0, length) as a sequence.
as_slice(d, len) == [k \in 1..len |-> d[k - 1]]
Contents == as_slice(data, length)

\* Slots src .. src+count-1 of d as a sequence (a bitwise read of a block).
Block(d, src, count) == [k \in 1..count |-> d[src + k - 1]]

\* ptr::copy (memmove): count slots from src to dst; the source bytes stay.
copy_to(d, src, dst, count) ==
  [i \in DOMAIN d |-> IF i >= dst /\ i < dst + count THEN d[i - dst + src] ELSE d[i]]

\* Writing the sequence s into slots dst .. dst+Len(s)-1.
write_block(d, dst, s) ==
  [i \in DOMAIN d |-> IF i >= dst /\ i < dst + Len(s) THEN s[i - dst + 1] ELSE d[i]]

\* A sequence of slot contents read as values is sound when every slot holds
\* an element the container still owns, each at most once.
SoundRead(st, s) ==
  /\ \A k \in DOMAIN s : s[k] # Uninit /\ st[s[k]] = "owned"
  /\ NoDup(s)

\* Reading slots from .. from+count-1 as values, by an operation that found
\* the container with length len: they must lie inside [0, len).
sound_read(st, d, len, from, count) ==
  \/ count <= 0
  \/ /\ from >= 0
     /\ from + count <= len
     /\ SoundRead(st, Block(d, from, count))

\* Writing slots dst .. dst+count-1: they must lie inside the array.
in_bounds(d, dst, count) == count <= 0 \/ (dst >= 0 /\ dst + count <= Cardinality(DOMAIN d))

SetStatus(st, S, what) == [id \in DOMAIN st |-> IF id \in S THEN what ELSE st[id]]

Latch(e, bad, what) == IF e # "ok" THEN e ELSE IF bad THEN what ELSE "ok"

MkOp(name, kind, a, b, out, dropped) ==
  [name |-> name, kind |-> kind, a |-> a, b |-> b, out |-> out, dropped |-> dropped]

NoDrain ==
  [active |-> FALSE, start |-> 0, length |-> 0, istart |-> 0, iend |-> 0,
   s |-> 0, e |-> 0, orig |-> <<>>, yielded |-> <<>>, gen |-> 0,
   pc |-> "live", rest |-> <<>>]

NoIter == [active |-> FALSE, start |-> 0, end |-> 0, data |-> <<>>, yielded |-> <<>>]

NoBorrow ==
  [active |-> FALSE, impl |-> "none", mutable |-> FALSE, size |-> 0, start |-> 0,
   end |-> 0, yielded |-> <<>>]

CanMake(k) == k <= budget
Idle == alive /\ ~dr.active /\ ~bi.active

\* ------------------------------------------------------------ constructors
\* StaticVec::new
New ==
  /\ ~alive
  /\ alive' = TRUE
  /\ data' = [i \in Cells |-> Uninit]
  /\ length' = 0
  /\ pre' = <<>>
  /\ op' = MkOp("new", "ok", 0, 0, <<>>, <<>>)
  /\ UNCHANGED <<N, it, bi, status, nextId, budget, err, dr>>

\* ----------------------------------------------------------------- clear
clear_keeps_length(name) ==
  /\ length' = length
  /\ status' = SetStatus(status, Range(Contents), "dropped")
  /\ err' = Latch(err, ~sound_read(status, data, length, 0, length), "bad_drop")
  /\ pre' = Contents
  /\ op' = MkOp(name, "ok", 0, 0, <<>>, Contents)

\* clear(): drop_in_place(as_mut_slice()); length = 0.

clear(name) ==
  /\ length' = 0
  /\ status' = SetStatus(status, Range(Contents), "dropped")
  /\ err' = Latch(err, ~sound_read(status, data, length, 0, length), "bad_drop")
  /\ pre' = Contents
  /\ op' = MkOp(name, "ok", 0, 0, <<>>, Contents)

Clear ==
  /\ Idle
  /\ clear("clear")
  /\ UNCHANGED <<N, it, bi, alive, data, nextId, budget, dr>>

DropVecWholeArray ==
  /\ Idle
  /\ alive' = FALSE
  /\ LET written == SelectSeq([k \in 1..N |-> data[k - 1]], LAMBDA v : v # Uninit) IN
     /\ length' = 0
     /\ status' = SetStatus(status, Range(written), "dropped")
     /\ err' = Latch(err, ~SoundRead(status, written), "bad_drop")
     /\ pre' = Contents
     /\ op' = MkOp("drop", "ok", 0, 0, <<>>, written)
  /\ UNCHANGED <<N, it, bi, data, nextId, budget, dr>>

\* Drop for StaticVec: self.clear()
DropVec ==
  /\ Idle
  /\ alive' = FALSE
  /\ clear("drop")
  /\ UNCHANGED <<N, it, bi, data, nextId, budget, dr>>

\* -------------------------------------------------------------- truncate
truncate_dropped_none(d, len, new_length) == <<>>

\* truncate(new_length): the elements it drops, slots [new_length, length)
\* when new_length < length and none otherwise.

truncate_dropped(d, len, new_length) ==
  IF new_length < len THEN Block(d, new_length, len - new_length) ELSE <<>>

truncate_len_pops_one(len, new_length) == IF new_length < len THEN len - 1 ELSE len

\* truncate(new_length): the length it leaves.

truncate_len(len, new_length) == IF new_length < len THEN new_length ELSE len

Truncate(new_length) ==
  /\ Idle
  /\ pre' = Contents
  /\ LET dropped == truncate_dropped(data, length, new_length) IN
     /\ err' = Latch(err, ~SoundRead(status, dropped), "bad_drop")
     /\ status' = SetStatus(status, Range(dropped), "dropped")
     /\ length' = truncate_len(length, new_length)
     /\ op' = MkOp("truncate", "ok", new_length, 0, <<>>, dropped)
  /\ UNCHANGED <<N, it, bi, alive, data, nextId, budget, dr>>

\* ------------------------------------------------------------------ push
push_write_before(d, len, v) == IF len > 0 THEN [d EXCEPT ![len - 1] = v] ELSE d

\* push_unchecked: data[length].write(value); length += 1
push_unchecked_data(d, len, v) == [d EXCEPT ![len] = v]

PushNoAssert ==
  /\ Idle /\ CanMake(1)
  /\ nextId' = nextId + 1
  /\ budget' = budget - 1
  /\ pre' = Contents
  /\ data' = push_unchecked_data(data, length, nextId)
  /\ length' = length + 1
  /\ status' = SetStatus(status, {nextId}, "owned")
  /\ err' = Latch(err, ~in_bounds(data, length, 1), "out_of_bounds")
  /\ op' = MkOp("push", "ok", nextId, 0, <<>>, <<>>)
  /\ UNCHANGED <<N, it, bi, alive, dr>>

Push ==
  /\ Idle /\ CanMake(1)
  /\ nextId' = nextId + 1
  /\ budget' = budget - 1
  /\ pre' = Contents
  /\ IF length < N
       THEN /\ data' = push_unchecked_data(data, length, nextId)
            /\ length' = length + 1
            /\ status' = SetStatus(status, {nextId}, "owned")
            /\ err' = Latch(err, ~in_bounds(data, length, 1), "out_of_bounds")
            /\ op' = MkOp("push", "ok", nextId, 0, <<>>, <<>>)
       ELSE /\ status' = SetStatus(status, {nextId}, "dropped")
            /\ op' = MkOp("push", "panic", nextId, 0, <<>>, <<nextId>>)
            /\ UNCHANGED <<data, length, err>>
  /\ UNCHANGED <<N, it, bi, alive, dr>>

\* ------------------------------------------------------------------- pop
PopNoDecrement ==
  /\ Idle
  /\ pre' = Contents
  /\ IF length = 0
       THEN /\ op' = MkOp("pop", "none", 0, 0, <<>>, <<>>)
            /\ UNCHANGED <<length, status, err>>
       ELSE /\ length' = length
            /\ LET v == data[length - 1] IN
               /\ err' = Latch(err, ~sound_read(status, data, length, length - 1, 1), "bad_read")
               /\ status' = SetStatus(status, {v}, "out")
               /\ op' = MkOp("pop", "ok", 0, 0, <<v>>, <<>>)
  /\ UNCHANGED <<N, it, bi, alive, data, nextId, budget, dr>>

Pop ==
  /\ Idle
  /\ pre' = Contents
  /\ IF length = 0
       THEN /\ op' = MkOp("pop", "none", 0, 0, <<>>, <<>>)
            /\ UNCHANGED <<length, status, err>>
       ELSE /\ length' = length - 1
            /\ LET v == data[length - 1] IN
               /\ err' = Latch(err, ~sound_read(status, data, length, length - 1, 1), "bad_read")
               /\ status' = SetStatus(status, {v}, "out")
               /\ op' = MkOp("pop", "ok", 0, 0, <<v>>, <<>>)
  /\ UNCHANGED <<N, it, bi, alive, data, nextId, budget, dr>>

\* ---------------------------------------------------------------- remove
remove_shift_missing(d, index, len) == d

\* p.offset(1).copy_to(p, self.length - index - 1)

remove_shift_one_short(d, index, len) == copy_to(d, index + 1, index, len - index - 2)

remove_shift(d, index, len) == copy_to(d, index + 1, index, len - index - 1)

\* The body of remove(index); name, a and b are what the caller records.
remove(index, name, a, b) ==
  IF index < length
    THEN LET res == data[index] IN
         /\ err' = Latch(err, ~sound_read(status, data, length, index, length - index),
                         "bad_read")
         /\ data' = remove_shift(data, index, length)
         /\ length' = length - 1
         /\ status' = SetStatus(status, {res}, "out")
         /\ op' = MkOp(name, "ok", a, b, <<res>>, <<>>)
    ELSE /\ op' = MkOp(name, "panic", a, b, <<>>, <<>>)
         /\ UNCHANGED <<data, length, status, err>>

Remove(index) ==
  /\ Idle
  /\ pre' = Contents
  /\ remove(index, "remove", index, 0)
  /\ UNCHANGED <<N, it, bi, alive, nextId, budget, dr>>

\* self.iter().position(|x| *x == *item): the index of the first element of
\* [from, len) whose value equals item, or -1.
RECURSIVE position(_, _, _, _)
position(d, from, len, item) ==
  IF from >= len THEN -1
  ELSE IF ValOf(d[from]) = item THEN from
  ELSE position(d, from + 1, len, item)

RemoveItem(item) ==
  /\ Idle
  /\ pre' = Contents
  /\ LET pos == position(data, 0, length, item) IN
     IF pos # -1
       THEN remove(pos, "remove_item", item, pos)
       ELSE /\ op' = MkOp("remove_item", "none", item, 0, <<>>, <<>>)
            /\ UNCHANGED <<data, length, status, err>>
  /\ UNCHANGED <<N, it, bi, alive, nextId, budget, dr>>

\* ---------------------------------------------------------------- insert
insert_shift_overwrite(d, index, len, value) == [d EXCEPT ![index] = value]

\* p.copy_to(p.offset(1), self.length - index); p.write(value)

insert_shift_at_end(d, index, len, value) == [d EXCEPT ![len] = value]

insert_shift(d, index, len, value) ==
  [copy_to(d, index, index + 1, len - index) EXCEPT ![index] = value]

InsertLateAssert(index) ==
  /\ Idle /\ CanMake(1)
  /\ nextId' = nextId + 1
  /\ budget' = budget - 1
  /\ pre' = Contents
  /\ data' = insert_shift(data, index, length, nextId)
  /\ err' = Latch(Latch(err, ~sound_read(status, data, length, index, length - index),
                        "bad_read"),
                  ~in_bounds(data, index, length - index + 1), "out_of_bounds")
  /\ IF length < N /\ index <= length
       THEN /\ length' = length + 1
            /\ status' = SetStatus(status, {nextId}, "owned")
            /\ op' = MkOp("insert", "ok", index, nextId, <<>>, <<>>)
       ELSE /\ length' = length
            /\ status' = SetStatus(status, {nextId}, "dropped")
            /\ op' = MkOp("insert", "panic", index, nextId, <<>>, <<nextId>>)
  /\ UNCHANGED <<N, it, bi, alive, dr>>

\* assert!(self.length < N && index <= self.length), then the shift and write.

Insert(index) ==
  /\ Idle /\ CanMake(1)
  /\ nextId' = nextId + 1
  /\ budget' = budget - 1
  /\ pre' = Contents
  /\ IF length < N /\ index <= length
       THEN /\ err' = Latch(Latch(err, ~sound_read(status, data, length, index, length - index),
                                  "bad_read"),
                            ~in_bounds(data, index, length - index + 1), "out_of_bounds")
            /\ data' = insert_shift(data, index, length, nextId)
            /\ length' = length + 1
            /\ status' = SetStatus(status, {nextId}, "owned")
            /\ op' = MkOp("insert", "ok", index, nextId, <<>>, <<>>)
       ELSE /\ status' = SetStatus(status, {nextId}, "dropped")
            /\ op' = MkOp("insert", "panic", index, nextId, <<>>, <<nextId>>)
            /\ UNCHANGED <<data, length, err>>
  /\ UNCHANGED <<N, it, bi, alive, dr>>

\* ----------------------------------------------------- extend_from_slice
clamp_loop_all_or_nothing(len, added_length, cap) ==
  IF len + added_length > cap THEN 0 ELSE added_length

clamp_loop_unclamped(len, added_length, cap) == added_length

\* while self.length + added_length > N { added_length -= 1; }
\* (usize: decrementing 0 has no result, reported as -1)

RECURSIVE clamp_loop(_, _, _)
clamp_loop(len, added_length, cap) ==
  IF len + added_length > cap
    THEN IF added_length = 0 THEN -1 ELSE clamp_loop(len, added_length - 1, cap)
    ELSE added_length

ExtendFromSlice(k) ==
  /\ Idle /\ CanMake(k)
  /\ nextId' = nextId + k
  /\ budget' = budget - k
  /\ pre' = Contents
  /\ LET other == Fresh(k)
         added_length == clamp_loop(length, k, N)
         copied == SubSeq(other, 1, added_length)
     IN /\ added_length >= 0
        /\ err' = Latch(err, ~in_bounds(data, length, added_length), "out_of_bounds")
        /\ data' = write_block(data, length, copied)
        /\ length' = length + added_length
        /\ status' = SetStatus(SetStatus(status, Range(other), "out"),
                               Range(copied), "owned")
        /\ op' = MkOp("extend_from_slice", "ok", k, added_length, other, <<>>)
  /\ UNCHANGED <<N, it, bi, alive, dr>>

\* extend_from_slice statement by statement: op.kind = "loop" while the
\* while loop runs, op.a is other.len() and op.b is added_length.
\* let mut added_length = other.len();
ExtendFromSliceBegin(k) ==
  /\ Idle /\ CanMake(k) /\ op.kind # "loop"
  /\ pre' = Contents
  /\ op' = MkOp("extend_from_slice", "loop", k, k, <<>>, <<>>)
  /\ UNCHANGED <<N, it, bi, alive, data, length, status, nextId, budget, err, dr>>

\* while self.length + added_length > N
clamp_loop_cond(len, added_length, cap) == len + added_length > cap

clamp_loop_body_stays(added_length) == added_length

\* added_length -= 1;

clamp_loop_body(added_length) == added_length - 1

\* One turn of the loop.  Taking one off a usize of 0 panics in a build with
\* overflow checks and wraps around in one without; either way the call has
\* left the loop the source describes, recorded as kind "underflow".
ExtendFromSliceLoop ==
  /\ Idle /\ op.name = "extend_from_slice" /\ op.kind = "loop"
  /\ clamp_loop_cond(length, op.b, N)
  /\ op' = IF op.b = 0 THEN [op EXCEPT !.kind = "underflow"]
           ELSE [op EXCEPT !.b = clamp_loop_body(op.b)]
  /\ UNCHANGED <<N, it, bi, alive, data, length, status, nextId, budget, err, pre, dr>>

\* The loop is left: copy_to_nonoverlapping and self.length += added_length.
ExtendFromSliceEnd ==
  /\ Idle /\ op.name = "extend_from_slice" /\ op.kind = "loop"
  /\ ~clamp_loop_cond(length, op.b, N)
  /\ nextId' = nextId + op.a
  /\ budget' = budget - op.a
  /\ LET other == Fresh(op.a)
         added_length == op.b
         copied == SubSeq(other, 1, added_length)
     IN /\ err' = Latch(err, ~in_bounds(data, length, added_length), "out_of_bounds")
        /\ data' = write_block(data, length, copied)
        /\ length' = length + added_length
        /\ status' = SetStatus(SetStatus(status, Range(other), "out"),
                               Range(copied), "owned")
        /\ op' = MkOp("extend_from_slice", "ok", op.a, added_length, other, <<>>)
  /\ UNCHANGED <<N, it, bi, alive, pre, dr>>

ExtendFromDrainedNoLength ==
  /\ Idle /\ op.name = "drain" /\ op.kind = "ok"
  /\ pre' = Contents
  /\ LET other == op.out
         added_length == clamp_loop(length, Len(other), N)
         copied == SubSeq(other, 1, added_length)
     IN /\ added_length >= 0
        /\ err' = Latch(err, ~in_bounds(data, length, added_length), "out_of_bounds")
        /\ data' = write_block(data, length, copied)
        /\ length' = length
        /\ status' = SetStatus(status, Range(copied), "owned")
        /\ op' = MkOp("extend_from_drained", "ok", Len(other), added_length, other, <<>>)
  /\ UNCHANGED <<N, it, bi, alive, nextId, budget, dr>>

\* extend_from_slice(drained.as_slice()), drained being the container the
\* last drain returned.

ExtendFromDrained ==
  /\ Idle /\ op.name = "drain" /\ op.kind = "ok"
  /\ pre' = Contents
  /\ LET other == op.out
         added_length == clamp_loop(length, Len(other), N)
         copied == SubSeq(other, 1, added_length)
     IN /\ added_length >= 0
        /\ err' = Latch(err, ~in_bounds(data, length, added_length), "out_of_bounds")
        /\ data' = write_block(data, length, copied)
        /\ length' = length + added_length
        /\ status' = SetStatus(status, Range(copied), "owned")
        /\ op' = MkOp("extend_from_drained", "ok", Len(other), added_length, other, <<>>)
  /\ UNCHANGED <<N, it, bi, alive, nextId, budget, dr>>

\* ----------------------------------------------------------------- drain
\* RangeBounds::start_bound / end_bound as drain resolves them.
range_start(kind, idx) ==
  CASE kind = "Included" -> idx
    [] kind = "Excluded" -> idx + 1
    [] kind = "Unbounded" -> 0

range_end(kind, idx, len) ==
  CASE kind = "Included" -> idx + 1
    [] kind = "Excluded" -> idx
    [] kind = "Unbounded" -> len

\* The range arguments tried on a container of length len: every a..b
\* inside it, a..b with the start one past the end or the end one past the
\* length, and a..=b, a.., ..b, .. and the bound pair
\* (Excluded(a), Excluded(b)) at the edges.
Ranges(len) ==
  {<<"Included", r[1], "Excluded", r[2]>> :
      r \in {q \in (0..len) \X (0..len) : q[1] <= q[2]}}
    \cup {<<"Included", b + 1, "Excluded", b>> : b \in {0, len}}
    \cup {<<"Included", a, "Excluded", len + 1>> : a \in {len, len + 1}}
    \cup {<<"Included", a, "Included", a>> : a \in {0, len}}
    \cup {<<"Included", 1, "Included", 0>>}
    \cup {<<"Included", a, "Unbounded", 0>> : a \in {1, len + 1}}
    \cup {<<"Unbounded", 0, "Excluded", b>> : b \in {1, len + 1}}
    \cup {<<"Unbounded", 0, "Unbounded", 0>>}
    \cup {<<"Excluded", 0, "Excluded", b>> : b \in {1, len}}

\* The ranges of Ranges(len) written a..b, valid or not.
HalfOpen(len) == {r \in Ranges(len) : r[1] = "Included" /\ r[3] = "Excluded"}

DrainTailOneShort(sk, si, ek, ei) ==
  /\ Idle
  /\ pre' = Contents
  /\ LET start == range_start(sk, si)
         end == range_end(ek, ei, length)
     IN IF start <= end /\ end <= length
          THEN LET res == Block(data, start, end - start) IN
               /\ err' = Latch(err, ~sound_read(status, data, length, start, length - start),
                               "bad_read")
               /\ data' = copy_to(data, end, start, length - end - 1)
               /\ length' = length - (end - start)
               /\ status' = SetStatus(status, Range(res), "out")
               /\ op' = MkOp("drain", "ok", start, end, res, <<>>)
          ELSE /\ op' = MkOp("drain", "panic", start, end, <<>>, <<>>)
               /\ UNCHANGED <<data, length, status, err>>
  /\ UNCHANGED <<N, it, bi, alive, nextId, budget, dr>>

DrainClampsRange(sk, si, ek, ei) ==
  /\ Idle
  /\ pre' = Contents
  /\ LET end == Min(range_end(ek, ei, length), length)
         start == Min(range_start(sk, si), end)
         res == Block(data, start, end - start)
     IN /\ err' = Latch(err, ~sound_read(status, data, length, start, length - start),
                        "bad_read")
        /\ data' = copy_to(data, end, start, length - end)
        /\ length' = length - (end - start)
        /\ status' = SetStatus(status, Range(res), "out")
        /\ op' = MkOp("drain", "ok", range_start(sk, si), range_end(ek, ei, length), res, <<>>)
  /\ UNCHANGED <<N, it, bi, alive, nextId, budget, dr>>

\* drain(range), its two block copies: the range is copied out to the
\* result, then the tail is copied down over it.
drain_values(d, start, end) == Block(d, start, end - start)

drain_tail_stays(d, start, end, len) == d

drain_shift(d, start, end, len) == copy_to(d, end, start, len - end)

\* drain(range): assert!(start <= end && end <= self.length), then the two
\* block copies and the length update.

Drain(sk, si, ek, ei) ==
  /\ Idle
  /\ pre' = Contents
  /\ LET start == range_start(sk, si)
         end == range_end(ek, ei, length)
     IN IF start <= end /\ end <= length
          THEN LET res == drain_values(data, start, end) IN
               /\ err' = Latch(err, ~sound_read(status, data, length, start, length - start),
                               "bad_read")
               /\ data' = drain_shift(data, start, end, length)
               /\ length' = length - (end - start)
               /\ status' = SetStatus(status, Range(res), "out")
               /\ op' = MkOp("drain", "ok", start, end, res, <<>>)
          ELSE /\ op' = MkOp("drain", "panic", start, end, <<>>, <<>>)
               /\ UNCHANGED <<data, length, status, err>>
  /\ UNCHANGED <<N, it, bi, alive, nextId, budget, dr>>

\* ------------------------------------------------------ bulk constructors
NewFromSlice(k) ==
  /\ ~alive /\ CanMake(k)
  /\ alive' = TRUE
  /\ nextId' = nextId + k
  /\ budget' = budget - k
  /\ pre' = <<>>
  /\ LET values == Fresh(k)
         fill_length == Min(k, N)
         copied == SubSeq(values, 1, fill_length)
     IN /\ data' = write_block([i \in Cells |-> Uninit], 0, copied)
        /\ length' = fill_length
        /\ status' = SetStatus(SetStatus(status, Range(values), "out"),
                               Range(copied), "owned")
        /\ op' = MkOp("new_from_slice", "ok", k, fill_length, values, <<>>)
  /\ UNCHANGED <<N, it, bi, err, dr>>

FilledWith ==
  /\ ~alive /\ CanMake(N)
  /\ alive' = TRUE
  /\ nextId' = nextId + N
  /\ budget' = budget - N
  /\ pre' = <<>>
  /\ data' = write_block([i \in Cells |-> Uninit], 0, Fresh(N))
  /\ length' = N
  /\ status' = SetStatus(status, Range(Fresh(N)), "owned")
  /\ op' = MkOp("filled_with", "ok", N, 0, <<>>, <<>>)
  /\ UNCHANGED <<N, it, bi, err, dr>>

from_iter_loop_one_short(d, len, items, from, cap) ==
  LET n == Min(Len(items), Max(cap - 1, 0))
  IN <<write_block(d, 0, SubSeq(items, 1, n)), n, Min(Len(items), n + 1)>>

\* for value in iter { if res.is_not_full() { push_unchecked } else { break } }
\* The result is <<data, length, items pulled>> once the loop has left.

from_iter_loop_pulls_all(d, len, items, from, cap) ==
  LET n == Min(Len(items), cap)
  IN <<write_block(d, 0, SubSeq(items, 1, n)), n, Len(items)>>

RECURSIVE from_iter_loop(_, _, _, _, _)
from_iter_loop(d, len, items, from, cap) ==
  IF from > Len(items) THEN <<d, len, from - 1>>
  ELSE IF len < cap
    THEN from_iter_loop(push_unchecked_data(d, len, items[from]), len + 1, items, from + 1, cap)
    ELSE <<d, len, from>>

FromIter(k) ==
  /\ ~alive /\ CanMake(k)
  /\ alive' = TRUE
  /\ nextId' = nextId + k
  /\ budget' = budget - k
  /\ pre' = <<>>
  /\ LET items == Fresh(k)
         r == from_iter_loop([i \in Cells |-> Uninit], 0, items, 1, N)
         stored == as_slice(r[1], r[2])
         pulled == r[3]
         rejected == SubSeq(items, r[2] + 1, pulled)
     IN /\ data' = r[1]
        /\ length' = r[2]
        /\ status' = SetStatus(SetStatus(SetStatus(status, Range(items), "out"),
                                         Range(rejected), "dropped"),
                               Range(stored), "owned")
        /\ op' = MkOp("from_iter", "ok", k, pulled, <<>>, rejected)
  /\ UNCHANGED <<N, it, bi, err, dr>>

\* ------------------------------------------------------ fallible mutators
\* try_push: push_unchecked when there is room, else the value comes back
\* inside the capacity error.
TryPushPanics ==
  /\ Idle /\ CanMake(1)
  /\ nextId' = nextId + 1
  /\ budget' = budget - 1
  /\ pre' = Contents
  /\ IF length < N
       THEN /\ data' = push_unchecked_data(data, length, nextId)
            /\ length' = length + 1
            /\ status' = SetStatus(status, {nextId}, "owned")
            /\ op' = MkOp("try_push", "ok", nextId, 0, <<>>, <<>>)
       ELSE /\ status' = SetStatus(status, {nextId}, "dropped")
            /\ op' = MkOp("try_push", "panic", nextId, 0, <<>>, <<nextId>>)
            /\ UNCHANGED <<data, length>>
  /\ UNCHANGED <<N, it, bi, alive, err, dr>>

TryPush ==
  /\ Idle /\ CanMake(1)
  /\ nextId' = nextId + 1
  /\ budget' = budget - 1
  /\ pre' = Contents
  /\ IF length < N
       THEN /\ data' = push_unchecked_data(data, length, nextId)
            /\ length' = length + 1
            /\ status' = SetStatus(status, {nextId}, "owned")
            /\ op' = MkOp("try_push", "ok", nextId, 0, <<>>, <<>>)
       ELSE /\ status' = SetStatus(status, {nextId}, "out")
            /\ op' = MkOp("try_push", "err", nextId, 0, <<nextId>>, <<>>)
            /\ UNCHANGED <<data, length>>
  /\ UNCHANGED <<N, it, bi, alive, err, dr>>

\* try_insert: insert when there is room and index <= length, else an error.
TryInsert(index) ==
  /\ Idle /\ CanMake(1)
  /\ nextId' = nextId + 1
  /\ budget' = budget - 1
  /\ pre' = Contents
  /\ IF length < N /\ index <= length
       THEN /\ data' = insert_shift(data, index, length, nextId)
            /\ length' = length + 1
            /\ status' = SetStatus(status, {nextId}, "owned")
            /\ op' = MkOp("try_insert", "ok", index, nextId, <<>>, <<>>)
       ELSE /\ status' = SetStatus(status, {nextId}, "dropped")
            /\ op' = MkOp("try_insert", "err", index, nextId, <<>>, <<nextId>>)
            /\ UNCHANGED <<data, length>>
  /\ UNCHANGED <<N, it, bi, alive, err, dr>>

\* try_extend_from_slice: all of other when it fits, else an error.
TryExtendFromSlice(k) ==
  /\ Idle /\ CanMake(k)
  /\ nextId' = nextId + k
  /\ budget' = budget - k
  /\ pre' = Contents
  /\ LET other == Fresh(k) IN
     IF N - length >= k
       THEN /\ data' = write_block(data, length, other)
            /\ length' = length + k
            /\ status' = SetStatus(status, Range(other), "owned")
            /\ op' = MkOp("try_extend_from_slice", "ok", k, k, other, <<>>)
       ELSE /\ status' = SetStatus(status, Range(other), "out")
            /\ op' = MkOp("try_extend_from_slice", "err", k, 0, other, <<>>)
            /\ UNCHANGED <<data, length>>
  /\ UNCHANGED <<N, it, bi, alive, err, dr>>

\* --------------------------------------------------------- StaticVecDrain
DrainIterNewKeepsLength(sk, si, ek, ei) ==
  /\ Idle
  /\ pre' = Contents
  /\ LET start == range_start(sk, si)
         end == range_end(ek, ei, length)
     IN IF start <= end /\ end <= length
          THEN /\ dr' = [active |-> TRUE, start |-> end, length |-> length - end,
                         istart |-> start, iend |-> end,
                         s |-> start, e |-> end, orig |-> Contents, yielded |-> <<>>,
                         gen |-> dr.gen + 1, pc |-> "live", rest |-> <<>>]
               /\ op' = MkOp("drain_iter", "ok", start, end, <<>>, <<>>)
               /\ UNCHANGED length
          ELSE /\ op' = MkOp("drain_iter", "panic", start, end, <<>>, <<>>)
               /\ UNCHANGED <<length, dr>>
  /\ UNCHANGED <<N, it, bi, alive, data, status, nextId, budget, err>>

\* drain_iter(range): the container keeps the head [0, start); the iterator
\* takes the range [start, end) and remembers the tail [end, length).

DrainIterNew(sk, si, ek, ei) ==
  /\ Idle
  /\ pre' = Contents
  /\ LET start == range_start(sk, si)
         end == range_end(ek, ei, length)
     IN IF start <= end /\ end <= length
          THEN /\ length' = start
               /\ dr' = [active |-> TRUE, start |-> end, length |-> length - end,
                         istart |-> start, iend |-> end,
                         s |-> start, e |-> end, orig |-> Contents, yielded |-> <<>>,
                         gen |-> dr.gen + 1, pc |-> "live", rest |-> <<>>]
               /\ op' = MkOp("drain_iter", "ok", start, end, <<>>, <<>>)
          ELSE /\ op' = MkOp("drain_iter", "panic", start, end, <<>>, <<>>)
               /\ UNCHANGED <<length, dr>>
  /\ UNCHANGED <<N, it, bi, alive, data, status, nextId, budget, err>>

\* Reading slot i through the iterator: it must lie in the drained range
\* [s, e) and hold an element nobody has taken yet.
drain_read_ok(st, d, i, s, e) ==
  i >= s /\ i < e /\ i < Cardinality(DOMAIN d) /\ SoundRead(st, <<d[i]>>)

\* StaticVecDrain::next: self.iter.next().map(|val| read(val))
DrainNext ==
  /\ alive /\ dr.active /\ dr.pc = "live"
  /\ pre' = Contents
  /\ IF dr.istart = dr.iend
       THEN /\ op' = MkOp("drain_next", "none", 0, 0, <<>>, <<>>)
            /\ UNCHANGED <<dr, status, err>>
       ELSE LET v == data[dr.istart] IN
            /\ err' = Latch(err, ~drain_read_ok(status, data, dr.istart, dr.s, dr.e), "bad_read")
            /\ status' = SetStatus(status, {v}, "out")
            /\ dr' = [dr EXCEPT !.istart = @ + 1, !.yielded = Append(@, v)]
            /\ op' = MkOp("drain_next", "ok", dr.istart, 0, <<v>>, <<>>)
  /\ UNCHANGED <<N, it, bi, alive, data, length, nextId, budget>>

\* StaticVecDrain::next_back: self.iter.next_back().map(|val| read(val))
DrainNextBack ==
  /\ alive /\ dr.active /\ dr.pc = "live"
  /\ pre' = Contents
  /\ IF dr.istart = dr.iend
       THEN /\ op' = MkOp("drain_next_back", "none", 0, 0, <<>>, <<>>)
            /\ UNCHANGED <<dr, status, err>>
       ELSE LET v == data[dr.iend - 1] IN
            /\ err' = Latch(err, ~drain_read_ok(status, data, dr.iend - 1, dr.s, dr.e),
                            "bad_read")
            /\ status' = SetStatus(status, {v}, "out")
            /\ dr' = [dr EXCEPT !.iend = @ - 1, !.yielded = Append(@, v)]
            /\ op' = MkOp("drain_next_back", "ok", dr.iend - 1, 0, <<v>>, <<>>)
  /\ UNCHANGED <<N, it, bi, alive, data, length, nextId, budget>>

drain_rest_forgotten(d, istart, iend) == <<>>

\* Drop for StaticVecDrain.
\* while let Some(_) = self.next() {}: what the loop reads out and drops.

drain_rest(d, istart, iend) == Block(d, istart, iend - istart)

\* tail.copy_to(vec + vec.length, total_length) when total_length > 0
drain_drop_data(d, vec_length, tail, total_length) ==
  IF total_length > 0 THEN copy_to(d, tail, vec_length, total_length) ELSE d

drain_drop_len_tail_only(vec_length, total_length) == total_length

\* vec.set_len(start + total_length) when total_length > 0

drain_drop_len(vec_length, total_length) ==
  IF total_length > 0 THEN vec_length + total_length ELSE vec_length

DrainDrop ==
  /\ alive /\ dr.active /\ dr.pc = "live"
  /\ LET rest == drain_rest(data, dr.istart, dr.iend) IN
     /\ err' = Latch(Latch(err, ~SoundRead(status, rest), "bad_drop"),
                     ~in_bounds(data, length, dr.length), "out_of_bounds")
     /\ status' = SetStatus(status, Range(rest), "dropped")
     /\ data' = drain_drop_data(data, length, dr.start, dr.length)
     /\ length' = drain_drop_len(length, dr.length)
     /\ op' = MkOp("drain_drop", "ok", dr.s, dr.e, dr.yielded, rest)
  /\ pre' = dr.orig
  /\ dr' = [NoDrain EXCEPT !.gen = dr.gen]
  /\ UNCHANGED <<N, it, bi, alive, nextId, budget>>

\* The slots read by nth(n) (back = FALSE) or nth_back(n) (back = TRUE) as
\* the iterator traits provide them: n calls of next (next_back) that stop
\* at the first None, then one more call.
nth_slots(start, end, back, n) ==
  LET avail == end - start
      cnt == IF n < avail THEN n + 1 ELSE avail
  IN [j \in 1..cnt |-> IF back THEN end - j ELSE start + j - 1]

\* Iterator::nth(n) / DoubleEndedIterator::nth_back(n) as the traits provide
\* them for StaticVecDrain: n calls of next (next_back) that stop at the
\* first None, their items dropped, then one more call.
drain_nth(name, back, n) ==
  /\ alive /\ dr.active /\ dr.pc = "live"
  /\ pre' = Contents
  /\ LET slots == nth_slots(dr.istart, dr.iend, back, n)
         some == n < dr.iend - dr.istart
         taken == [j \in 1..Len(slots) |-> data[slots[j]]]
         skipped == IF some THEN SubSeq(taken, 1, n) ELSE taken
     IN /\ err' = Latch(err, \E j \in 1..Len(slots) :
                               ~drain_read_ok(status, data, slots[j], dr.s, dr.e),
                        "bad_read")
        /\ status' = SetStatus(SetStatus(status, Range(taken), "out"),
                               Range(skipped), "dropped")
        /\ dr' = [dr EXCEPT !.istart = IF back THEN @ ELSE @ + Len(slots),
                            !.iend = IF back THEN @ - Len(slots) ELSE @,
                            !.yielded = @ \o taken]
        /\ op' = MkOp(name, IF some THEN "ok" ELSE "none", n, dr.iend - dr.istart,
                      IF some THEN <<taken[n + 1]>> ELSE <<>>, skipped)
  /\ UNCHANGED <<N, it, bi, alive, data, length, nextId, budget>>

DrainNth(n) == drain_nth("drain_nth", FALSE, n)

DrainNthBack(n) == drain_nth("drain_nth_back", TRUE, n)

\* Drop for StaticVecDrain statement by statement. dr.pc is the statement
\* the drop is at: "live" before the drop starts, "loop" in the while let
\* loop, "copy_to" and "set_len" inside if total_length > 0.
drain_drop_after_len_first(pc, total_length) ==
  CASE pc = "loop" -> IF total_length > 0 THEN "set_len" ELSE "done"
    [] pc = "set_len" -> "copy_to"
    [] OTHER -> "done"

\* The statement that follows statement pc of the drop.

drain_drop_after(pc, total_length) ==
  CASE pc = "loop" -> IF total_length > 0 THEN "copy_to" ELSE "done"
    [] pc = "copy_to" -> "set_len"
    [] OTHER -> "done"

\* Moving the drop of the iterator d on to statement pc; the drop is over
\* at "done" and the borrow of the container ends.
drain_drop_goto(d, pc) ==
  IF pc = "done"
    THEN /\ dr' = [NoDrain EXCEPT !.gen = d.gen]
         /\ op' = MkOp("drain_drop", "ok", d.s, d.e, d.yielded, d.rest)
         /\ pre' = d.orig
    ELSE /\ dr' = [d EXCEPT !.pc = pc]
         /\ op' = MkOp("drain_drop_step", "ok", d.s, d.e, <<>>, <<>>)
         /\ pre' = Contents

\* while let Some(_) = self.next() {}: one turn of the loop.
DrainDropLoop ==
  /\ alive /\ dr.active /\ dr.pc \in {"live", "loop"}
  /\ IF dr.istart # dr.iend
       THEN LET v == data[dr.istart] IN
            /\ err' = Latch(err, ~drain_read_ok(status, data, dr.istart, dr.s, dr.e),
                            "bad_drop")
            /\ status' = SetStatus(status, {v}, "dropped")
            /\ drain_drop_goto([dr EXCEPT !.istart = @ + 1, !.rest = Append(@, v)], "loop")
       ELSE /\ drain_drop_goto(dr, drain_drop_after("loop", dr.length))
            /\ UNCHANGED <<status, err>>
  /\ UNCHANGED <<N, it, bi, alive, data, length, nextId, budget>>

\* self.vec.ptr_at_unchecked(tail).copy_to(self.vec.mut_ptr_at_unchecked(start), total_length)
\* with start = vec_ref.length and tail = self.start.
DrainDropCopyTo ==
  /\ alive /\ dr.active /\ dr.pc = "copy_to"
  /\ err' = Latch(err, ~in_bounds(data, length, dr.length), "out_of_bounds")
  /\ data' = drain_drop_data(data, length, dr.start, dr.length)
  /\ drain_drop_goto(dr, drain_drop_after("copy_to", dr.length))
  /\ UNCHANGED <<N, it, bi, alive, length, status, nextId, budget>>

\* vec_ref.set_len(start + total_length) with start = vec_ref.length.
DrainDropSetLen ==
  /\ alive /\ dr.active /\ dr.pc = "set_len"
  /\ length' = drain_drop_len(length, dr.length)
  /\ drain_drop_goto(dr, drain_drop_after("set_len", dr.length))
  /\ UNCHANGED <<N, it, bi, alive, data, status, nextId, budget, err>>

\* ---------------------------------------------------------------- splice
\* v.splice(range, replacement): the splice iterator is created over the
\* range, t of the removed elements are taken from it, and it is dropped.
\* The range is checked first.  The drop drops the removed elements not
\* taken, writes the k replacement items from start when the result fits in
\* N slots, and moves the tail behind them.  A replacement that does not fit
\* panics before any of it is written, and the drop closes the gap as a
\* drain would.
SpliceOp(kind, start, end, k, out, dropped) ==
  MkOp("splice", kind, start, end, out, dropped) @@ [k |-> k]

\* the result fits: original_length - removed_count + replacement_count <= N
splice_fits(len, start, end, k, cap) == len - (end - start) + k <= cap

splice_made_truncates(len, start, end, k, cap) == Min(k, cap - (len - (end - start)))

\* replacement items written: all of them or, when they do not fit, none

splice_made(len, start, end, k, cap) ==
  IF splice_fits(len, start, end, k, cap) THEN k ELSE 0

splice_data_tail_stays(d, start, end, len, replacement) ==
  write_block(d, start, replacement)

\* replacement written from start, the tail [end, len) moved to follow it

splice_data(d, start, end, len, replacement) ==
  write_block(write_block(d, start, replacement),
              start + Len(replacement), Block(d, end, len - end))

Splice(sk, si, ek, ei, k, t) ==
  /\ Idle /\ CanMake(k)
  /\ pre' = Contents
  /\ LET start == range_start(sk, si)
         end == range_end(ek, ei, length)
     IN IF start <= end /\ end <= length
          THEN /\ t <= end - start
               /\ LET removed == Block(data, start, end - start)
                      yielded == SubSeq(removed, 1, t)
                      rest == SubSeq(removed, t + 1, Len(removed))
                      made == splice_made(length, start, end, k, N)
                      replacement == Fresh(made)
                  IN /\ data' = splice_data(data, start, end, length, replacement)
                     /\ length' = length - (end - start) + made
                     /\ status' = SetStatus(SetStatus(SetStatus(status, Range(yielded), "out"),
                                                      Range(rest), "dropped"),
                                            Range(replacement), "owned")
                     /\ nextId' = nextId + made
                     /\ budget' = budget - made
                     /\ op' = SpliceOp(IF splice_fits(length, start, end, k, N)
                                         THEN "ok" ELSE "panic",
                                       start, end, k, yielded, rest)
          ELSE /\ t = 0
               /\ op' = SpliceOp("panic", start, end, k, <<>>, <<>>)
               /\ UNCHANGED <<data, length, status, nextId, budget>>
  /\ UNCHANGED <<N, it, bi, alive, err, dr>>

\* ----------------------------------------------------------------- clone
CloneLeaks(p) ==
  /\ Idle
  /\ LET panics == p < length
         k == IF panics THEN p ELSE length
         made == Fresh(k)
     IN /\ CanMake(k)
        /\ nextId' = nextId + k
        /\ budget' = budget - k
        /\ status' = SetStatus(status, Range(made), IF panics THEN "owned" ELSE "out")
        /\ err' = Latch(err, ~sound_read(status, data, length, 0,
                                         IF panics THEN k + 1 ELSE k), "bad_read")
        /\ op' = MkOp("clone", IF panics THEN "panic" ELSE "ok", p, 0,
                      IF panics THEN <<>> ELSE made, <<>>)
  /\ pre' = Contents
  /\ UNCHANGED <<N, it, bi, alive, data, length, dr>>

\* clone(&self), with p the index of the first element whose clone panics
\* (p = length: none does).  The elements before p are cloned in index order
\* into a new container; when the clone of element p panics the new
\* container is dropped with the p clones it holds, otherwise it is handed
\* to the caller.  The source is only read.

Clone(p) ==
  /\ Idle
  /\ LET panics == p < length
         k == IF panics THEN p ELSE length
         made == Fresh(k)
     IN /\ CanMake(k)
        /\ nextId' = nextId + k
        /\ budget' = budget - k
        /\ status' = SetStatus(status, Range(made), IF panics THEN "dropped" ELSE "out")
        /\ err' = Latch(err, ~sound_read(status, data, length, 0,
                                         IF panics THEN k + 1 ELSE k), "bad_read")
        /\ op' = MkOp("clone", IF panics THEN "panic" ELSE "ok", p, 0,
                      IF panics THEN <<>> ELSE made, IF panics THEN made ELSE <<>>)
  /\ pre' = Contents
  /\ UNCHANGED <<N, it, bi, alive, data, length, dr>>

\* ------------------------------------------------------ StaticVecIntoIter
\* into_iter(self): the container is moved into the iterator, which starts
\* with start = 0 and end = length over the moved-in array.
IntoIterNew ==
  /\ Idle
  /\ pre' = Contents
  /\ it' = [active |-> TRUE, start |-> 0, end |-> length, data |-> data, yielded |-> <<>>]
  /\ alive' = FALSE
  /\ length' = 0
  /\ data' = [i \in Cells |-> Uninit]
  /\ op' = MkOp("into_iter", "ok", 0, length, <<>>, <<>>)
  /\ UNCHANGED <<N, bi, status, nextId, budget, err, dr>>

\* Reading slot i of the iterator's array as a value.
iter_read_ok(st, d, i) == i >= 0 /\ i < Cardinality(DOMAIN d) /\ SoundRead(st, <<d[i]>>)

IntoIterNextNoneAdvances ==
  /\ it.active
  /\ IF it.end - it.start = 0
       THEN /\ op' = MkOp("into_iter_next", "none", it.start, it.end, <<>>, <<>>)
            /\ it' = [it EXCEPT !.start = @ + 1]
            /\ UNCHANGED <<status, err>>
       ELSE LET res == it.data[it.start] IN
            /\ err' = Latch(err, ~iter_read_ok(status, it.data, it.start), "bad_read")
            /\ status' = SetStatus(status, {res}, "out")
            /\ it' = [it EXCEPT !.start = @ + 1, !.yielded = Append(@, res)]
            /\ op' = MkOp("into_iter_next", "ok", it.start, it.end, <<res>>, <<>>)
  /\ UNCHANGED <<N, bi, alive, data, length, nextId, budget, pre, dr>>

\* StaticVecIntoIter::next

IntoIterNext ==
  /\ it.active
  /\ IF it.end - it.start = 0
       THEN /\ op' = MkOp("into_iter_next", "none", it.start, it.end, <<>>, <<>>)
            /\ UNCHANGED <<it, status, err>>
       ELSE LET res == it.data[it.start] IN
            /\ err' = Latch(err, ~iter_read_ok(status, it.data, it.start), "bad_read")
            /\ status' = SetStatus(status, {res}, "out")
            /\ it' = [it EXCEPT !.start = @ + 1, !.yielded = Append(@, res)]
            /\ op' = MkOp("into_iter_next", "ok", it.start, it.end, <<res>>, <<>>)
  /\ UNCHANGED <<N, bi, alive, data, length, nextId, budget, pre, dr>>

IntoIterNextBackReadsEnd ==
  /\ it.active
  /\ IF it.end - it.start = 0
       THEN /\ op' = MkOp("into_iter_next_back", "none", it.start, it.end, <<>>, <<>>)
            /\ UNCHANGED <<it, status, err>>
       ELSE LET i == IF it.end < Cardinality(DOMAIN it.data) THEN it.end ELSE it.end - 1
                res == it.data[i]
            IN /\ err' = Latch(err, ~iter_read_ok(status, it.data, it.end), "bad_read")
               /\ status' = SetStatus(status, {res}, "out")
               /\ it' = [it EXCEPT !.end = @ - 1, !.yielded = Append(@, res)]
               /\ op' = MkOp("into_iter_next_back", "ok", it.start, it.end, <<res>>, <<>>)
  /\ UNCHANGED <<N, bi, alive, data, length, nextId, budget, pre, dr>>

\* StaticVecIntoIter::next_back

IntoIterNextBack ==
  /\ it.active
  /\ IF it.end - it.start = 0
       THEN /\ op' = MkOp("into_iter_next_back", "none", it.start, it.end, <<>>, <<>>)
            /\ UNCHANGED <<it, status, err>>
       ELSE LET res == it.data[it.end - 1] IN
            /\ err' = Latch(err, ~iter_read_ok(status, it.data, it.end - 1), "bad_read")
            /\ status' = SetStatus(status, {res}, "out")
            /\ it' = [it EXCEPT !.end = @ - 1, !.yielded = Append(@, res)]
            /\ op' = MkOp("into_iter_next_back", "ok", it.start, it.end, <<res>>, <<>>)
  /\ UNCHANGED <<N, bi, alive, data, length, nextId, budget, pre, dr>>

\* Iterator::nth(n) / DoubleEndedIterator::nth_back(n) as the traits provide
\* them for StaticVecIntoIter: n calls of next (next_back) that stop at the
\* first None, their items dropped, then one more call.
into_iter_nth(name, back, n) ==
  /\ it.active
  /\ LET slots == nth_slots(it.start, it.end, back, n)
         some == n < it.end - it.start
         taken == [j \in 1..Len(slots) |-> it.data[slots[j]]]
         skipped == IF some THEN SubSeq(taken, 1, n) ELSE taken
     IN /\ err' = Latch(err, ~SoundRead(status, taken), "bad_read")
        /\ status' = SetStatus(SetStatus(status, Range(taken), "out"),
                               Range(skipped), "dropped")
        /\ it' = [it EXCEPT !.start = IF back THEN @ ELSE @ + Len(slots),
                            !.end = IF back THEN @ - Len(slots) ELSE @,
                            !.yielded = @ \o taken]
        /\ op' = MkOp(name, IF some THEN "ok" ELSE "none", n, it.end - it.start,
                      IF some THEN <<taken[n + 1]>> ELSE <<>>, skipped)
  /\ UNCHANGED <<N, bi, alive, data, length, nextId, budget, pre, dr>>

IntoIterNth(n) == into_iter_nth("into_iter_nth", FALSE, n)

IntoIterNthBack(n) == into_iter_nth("into_iter_nth_back", TRUE, n)

into_iter_size_hint_end(i) == i.end

\* StaticVecIntoIter::size_hint / len: self.end - self.start, exact

into_iter_size_hint(i) == i.end - i.start

\* StaticVecDrain::size_hint / len: self.iter.size_hint() / self.iter.len()
drain_size_hint(d) == d.iend - d.istart

into_iter_rest_from_zero(d, start, end) == Block(d, 0, end)

\* Drop for StaticVecIntoIter: item_count = end - start; drop_in_place of
\* the item_count slots from start when item_count is not 0.

into_iter_rest(d, start, end) ==
  IF end - start = 0 THEN <<>> ELSE Block(d, start, end - start)

IntoIterDrop ==
  /\ it.active
  /\ LET rest == into_iter_rest(it.data, it.start, it.end) IN
     /\ err' = Latch(err, ~SoundRead(status, rest), "bad_drop")
     /\ status' = SetStatus(status, Range(rest), "dropped")
     /\ op' = MkOp("into_iter_drop", "ok", it.start, it.end, it.yielded, rest)
  /\ it' = NoIter
  /\ UNCHANGED <<N, bi, alive, data, length, nextId, budget, pre, dr>>

\* ------------------------------ StaticVecIterConst / StaticVecIterMut
\* Pointers into the backing array are byte offsets from as_ptr(), for an
\* element type of size bytes: p.add(n) and p.sub(n) move by n * size bytes.
ptr_add(p, n, size) == p + n * size
ptr_sub(p, n, size) == p - n * size

\* The slot a pointer between elements of nonzero size points at.
ptr_slot(p, size) == p \div size

\* The size in bytes of the element type wherever it is not zero.
ElemSize == 1

\* iter() / iter_mut(): start = as_ptr() and end = as_ptr().add(length), both
\* as_ptr() when the container is empty.
Iter(mutable, size) ==
  /\ Idle
  /\ bi' = [active |-> TRUE, impl |-> "ptr", mutable |-> mutable, size |-> size,
            start |-> 0,
            end |-> IF length > 0 THEN ptr_add(0, length, size) ELSE 0,
            yielded |-> <<>>]
  /\ pre' = Contents
  /\ op' = MkOp(IF mutable THEN "iter_mut" ELSE "iter", "ok", 0, length, <<>>, <<>>)
  /\ UNCHANGED <<N, it, alive, data, length, status, nextId, budget, err, dr>>

\* iter() / iter_mut() of the slice-backed iterators: as_slice().iter().
\* The slice iterator counts elements, whatever their size: start and end
\* are indices.
SliceIter(mutable, size) ==
  /\ Idle
  /\ bi' = [active |-> TRUE, impl |-> "slice", mutable |-> mutable, size |-> size,
            start |-> 0, end |-> length, yielded |-> <<>>]
  /\ pre' = Contents
  /\ op' = MkOp(IF mutable THEN "iter_mut" ELSE "iter", "ok", 0, length, <<>>, <<>>)
  /\ UNCHANGED <<N, it, alive, data, length, status, nextId, budget, err, dr>>

IterNoneRewinds(b) == [it |-> [b EXCEPT !.start = 0], some |-> FALSE, slot |-> 0]

\* One step of an iterator: the iterator afterwards, whether an item was
\* produced, and the slot the produced reference points at.
IterNone(b) == [it |-> b, some |-> FALSE, slot |-> 0]

\* lib.rs next: if self.start < self.end { Some(&*self.start), start.add(1) }
ptr_next_stays(b) ==
  IF b.start < b.end
    THEN [it |-> b, some |-> TRUE, slot |-> ptr_slot(b.start, b.size)]
    ELSE IterNone(b)

ptr_next(b) ==
  IF b.start < b.end
    THEN [it |-> [b EXCEPT !.start = ptr_add(@, 1, b.size)], some |-> TRUE,
          slot |-> ptr_slot(b.start, b.size)]
    ELSE IterNone(b)

\* lib.rs next_back: if self.end > self.start { res = Some(&*self.end);
\* self.end = self.end.sub(1); res }
ptr_next_back(b) ==
  IF b.end > b.start
    THEN [it |-> [b EXCEPT !.end = ptr_sub(@, 1, b.size)], some |-> TRUE,
          slot |-> ptr_slot(b.end, b.size)]
    ELSE IterNone(b)

\* iterators.rs next: self.iter.next() of the slice iterator
slice_next(b) ==
  IF b.start = b.end
    THEN IterNone(b)
    ELSE [it |-> [b EXCEPT !.start = @ + 1], some |-> TRUE, slot |-> b.start]

\* iterators.rs next_back: self.iter.next_back() of the slice iterator
slice_next_back(b) ==
  IF b.start = b.end
    THEN IterNone(b)
    ELSE [it |-> [b EXCEPT !.end = @ - 1], some |-> TRUE, slot |-> b.end - 1]

iter_step(b, back) ==
  IF b.impl = "ptr"
    THEN IF back THEN ptr_next_back(b) ELSE ptr_next(b)
    ELSE IF back THEN slice_next_back(b) ELSE slice_next(b)

\* Iterator::nth / DoubleEndedIterator::nth_back as the traits provide them:
\* n calls of next (next_back) that stop at the first None, then one more.
RECURSIVE iter_advance_by(_, _, _)
iter_advance_by(b, back, n) ==
  IF n = 0
    THEN [it |-> b, ok |-> TRUE, slots |-> <<>>]
    ELSE LET r == iter_step(b, back) IN
         IF ~r.some
           THEN [it |-> r.it, ok |-> FALSE, slots |-> <<>>]
           ELSE LET a == iter_advance_by(r.it, back, n - 1) IN
                [it |-> a.it, ok |-> a.ok, slots |-> <<r.slot>> \o a.slots]

iter_nth(b, back, n) ==
  LET a == iter_advance_by(b, back, n) IN
  IF ~a.ok
    THEN [it |-> a.it, some |-> FALSE, slots |-> a.slots]
    ELSE LET r == iter_step(a.it, back) IN
         [it |-> r.it, some |-> r.some,
          slots |-> IF r.some THEN a.slots \o <<r.slot>> ELSE a.slots]

\* What a reference to slot i leads to: the bytes of the slot when it was
\* ever written, and any bytes at all (g) when it never was or when it lies
\* past the array.
ptr_read(d, i, g) == IF i \in DOMAIN d /\ d[i] # Uninit THEN d[i] ELSE g
Garbage == {id \in Ids : id < nextId} \cup {Uninit}

\* The reference is sound when the slot is inside the inhabited area.
borrow_ok(st, d, len, i) == i >= 0 /\ i < len /\ SoundRead(st, <<d[i]>>)

\* The items of the calls made on the slots in order, as <<slot, value>>.
borrow_items(d, slots, g) == [j \in 1..Len(slots) |-> <<slots[j], ptr_read(d, slots[j], g)>>]

\* A call on the borrowing iterator with the outcome r: the references of
\* all the calls of next / next_back it made are produced, the last of them
\* returned.  op records a and b: start and end before next and next_back,
\* the argument n and the remaining length before nth and nth_back.
borrow_call(name, a, b, r) ==
  \E g \in Garbage :
    LET items == borrow_items(data, r.slots, g) IN
    /\ (\A j \in 1..Len(r.slots) : borrow_ok(status, data, length, r.slots[j])) => g = Uninit
    /\ bi' = [r.it EXCEPT !.yielded = @ \o items]
    /\ err' = Latch(err, \E j \in 1..Len(r.slots) :
                           ~borrow_ok(status, data, length, r.slots[j]), "bad_read")
    /\ op' = MkOp(name, IF r.some THEN "ok" ELSE "none", a, b,
                  IF r.some THEN <<items[Len(items)]>> ELSE <<>>, <<>>)
    /\ UNCHANGED <<N, it, alive, data, length, status, nextId, budget, pre, dr>>

one_call(r) == [it |-> r.it, some |-> r.some, slots |-> IF r.some THEN <<r.slot>> ELSE <<>>]

\* StaticVecIterConst::next / StaticVecIterMut::next (raw pointers)
IterNext ==
  /\ bi.active /\ bi.impl = "ptr"
  /\ borrow_call("iter_next", bi.start, bi.end, one_call(ptr_next(bi)))

\* StaticVecIterConst::next_back / StaticVecIterMut::next_back (raw pointers)
IterNextBack ==
  /\ bi.active /\ bi.impl = "ptr"
  /\ borrow_call("iter_next_back", bi.start, bi.end, one_call(ptr_next_back(bi)))

\* StaticVecIterConst::next / StaticVecIterMut::next (slice-backed)
SliceIterNext ==
  /\ bi.active /\ bi.impl = "slice"
  /\ borrow_call("iter_next", bi.start, bi.end, one_call(slice_next(bi)))

\* StaticVecIterConst::next_back / StaticVecIterMut::next_back (slice-backed)
SliceIterNextBack ==
  /\ bi.active /\ bi.impl = "slice"
  /\ borrow_call("iter_next_back", bi.start, bi.end, one_call(slice_next_back(bi)))

IterNth(n) ==
  /\ bi.active
  /\ borrow_call("iter_nth", n, bi.end - bi.start, iter_nth(bi, FALSE, n))

IterNthBack(n) ==
  /\ bi.active
  /\ borrow_call("iter_nth_back", n, bi.end - bi.start, iter_nth(bi, TRUE, n))

\* distance_between(dest, origin): the elements between two pointers
distance_between(dest, origin, size) ==
  IF size = 0 THEN dest - origin ELSE (dest - origin) \div size

\* size_hint / len: distance_between(self.end, self.start) for the raw
\* pointers, the slice iterator's length otherwise; exact on both ends
borrow_size_hint(b) ==
  IF b.impl = "ptr" THEN distance_between(b.end, b.start, b.size) ELSE b.end - b.start

\* --------------------------------------------------------- specifications
Init ==
  /\ N \in 0..MaxN
  /\ alive = FALSE
  /\ data = [i \in Cells |-> Uninit]
  /\ length = 0
  /\ status = [id \in Ids |-> "none"]
  /\ nextId = 0
  /\ budget = MaxElems
  /\ err = "ok"
  /\ op = MkOp("init", "ok", 0, 0, <<>>, <<>>)
  /\ pre = <<>>
  /\ dr = NoDrain
  /\ it = NoIter
  /\ bi = NoBorrow

Next ==
  \/ New
  \/ DropVec
  \/ \E k \in 0..MaxSlice : NewFromSlice(k)
  \/ FilledWith
  \/ \E k \in 0..MaxSlice : FromIter(k)
  \/ Push
  \/ Pop
  \/ \E index \in 0..(length + 1) : Insert(index)
  \/ \E index \in 0..(length + 1) : Remove(index)
  \/ \E item \in 0..(NumVals - 1) : RemoveItem(item)
  \/ Clear
  \/ \E k \in 0..MaxSlice : ExtendFromSlice(k)
  \/ \E r \in HalfOpen(length) : Drain(r[1], r[2], r[3], r[4])

Spec == Init /\ [][Next]_vars

\* A container of any capacity up to MaxDrainN holding any number of
\* elements, as new() and pushes build it.
InitFilled(b) ==
  /\ N \in 0..MaxDrainN
  /\ alive = TRUE
  /\ length \in 0..N
  /\ data = [i \in Cells |-> IF i < length THEN i ELSE Uninit]
  /\ status = [id \in Ids |-> IF id < length THEN "owned" ELSE "none"]
  /\ nextId = length
  /\ budget = b
  /\ err = "ok"
  /\ op = MkOp("init", "ok", 0, 0, <<>>, <<>>)
  /\ pre = <<>>
  /\ dr = NoDrain
  /\ it = NoIter
  /\ bi = NoBorrow

\* The draining iterator, up to MaxDrains times on one container.
InitDrain == InitFilled(0)

NextDrain ==
  \/ dr.gen < MaxDrains /\ \E r \in Ranges(length) : DrainIterNew(r[1], r[2], r[3], r[4])
  \/ DrainNext
  \/ DrainNextBack
  \/ DrainDrop

SpecDrain == InitDrain /\ [][NextDrain]_vars

\* Eager drain and the draining iterator, each as the first operation on
\* the same containers.
InitBoth == InitFilled(0)

NextBoth ==
  \/ op.name = "init" /\ \E r \in Ranges(length) : Drain(r[1], r[2], r[3], r[4])
  \/ op.name = "init" /\ \E r \in Ranges(length) : DrainIterNew(r[1], r[2], r[3], r[4])
  \/ DrainNext
  \/ DrainNextBack
  \/ DrainDrop

SpecBoth == InitBoth /\ [][NextBoth]_vars

\* extend_from_slice with its clamping loop taken one turn at a time; a call
\* that has begun goes on to its next statement.
InitClamp == InitFilled(TryBudget)

NextClamp ==
  \/ \E k \in 0..MaxSlice : ExtendFromSliceBegin(k)
  \/ ExtendFromSliceLoop
  \/ ExtendFromSliceEnd

SpecClamp ==
  /\ InitClamp /\ [][NextClamp]_vars
  /\ WF_vars(ExtendFromSliceLoop) /\ WF_vars(ExtendFromSliceEnd)

\* The draining iterator with its drop taken one statement at a time.
InitDrop == InitFilled(0)

NextDrop ==
  \/ dr.gen < MaxDrains /\ \E r \in Ranges(length) : DrainIterNew(r[1], r[2], r[3], r[4])
  \/ DrainNext
  \/ DrainNextBack
  \/ DrainDropLoop
  \/ DrainDropCopyTo
  \/ DrainDropSetLen

SpecDrop == InitDrop /\ [][NextDrop]_vars

\* The single-element mutators and eager drain on larger containers, in the
\* orders remove, insert, remove, drain, extend and push, pop.
InitOps == InitFilled(OpsBudget)

NextOps ==
  \/ op.name = "init" /\ Push
  \/ op.name \in {"init", "push"} /\ Pop
  \/ op.name \in {"init", "remove"} /\ \E index \in 0..(length + 1) : Insert(index)
  \/ op.name \in {"init", "insert"} /\ \E index \in 0..(length + 1) : Remove(index)
  \/ op.name \in {"init", "remove", "insert"} /\ \E r \in Ranges(length) : Drain(r[1], r[2], r[3], r[4])
  \/ ExtendFromDrained

SpecOps == InitOps /\ [][NextOps]_vars

\* The fallible mutators.
InitTry == InitFilled(TryBudget)

NextTry ==
  \/ TryPush
  \/ \E index \in 0..(length + 1) : TryInsert(index)
  \/ \E k \in 0..MaxSlice : TryExtendFromSlice(k)

SpecTry == InitTry /\ [][NextTry]_vars

\* The range-taking operations: splice, then eager drain or the draining
\* iterator created and dropped.
InitRange == InitFilled(RangeBudget)

NextRange ==
  \/ op.name \in {"init", "splice"} /\ \E r \in Ranges(length) : Drain(r[1], r[2], r[3], r[4])
  \/ op.name \in {"init", "splice"} /\ \E r \in Ranges(length) : DrainIterNew(r[1], r[2], r[3], r[4])
  \/ DrainDrop
  \/ op.name = "init" /\ \E r \in Ranges(length) : \E k \in 0..RangeBudget : \E t \in 0..length : Splice(r[1], r[2], r[3], r[4], k, t)

SpecRange == InitRange /\ [][NextRange]_vars

\* truncate, clear and the container's drop on containers of every length.
InitTrunc == InitFilled(0)

NextTrunc ==
  \/ \E new_length \in (0..(length + 1)) \cup {FarLen} : Truncate(new_length)
  \/ Clear
  \/ DropVec

SpecTrunc == InitTrunc /\ [][NextTrunc]_vars

\* The owning iterator: a container, after at most one pop, is turned into
\* its iterator, which is advanced from both ends and dropped.
InitIter == InitFilled(0)

NextIter ==
  \/ op.name = "init" /\ Pop
  \/ IntoIterNew
  \/ IntoIterNext
  \/ IntoIterNextBack
  \/ IntoIterDrop

SpecIter == InitIter /\ [][NextIter]_vars

\* The three iterator families on containers of every length, after at most
\* one pop: the borrowing iterators advanced by next, next_back, nth and
\* nth_back; the owning iterator; one draining iterator.
InitIters == InitFilled(0)

NextIters ==
  \/ op.name = "init" /\ Pop
  \/ op.name \in {"init", "pop"} /\ \E mutable \in BOOLEAN : Iter(mutable, ElemSize)
  \/ op.name \in {"init", "pop"} /\ \E mutable \in BOOLEAN : SliceIter(mutable, ElemSize)
  \/ IterNext
  \/ IterNextBack
  \/ SliceIterNext
  \/ SliceIterNextBack
  \/ \E n \in 0..(length + 1) : IterNth(n)
  \/ \E n \in 0..(length + 1) : IterNthBack(n)
  \/ op.name \in {"init", "pop"} /\ IntoIterNew
  \/ IntoIterNext
  \/ IntoIterNextBack
  \/ \E n \in 0..(it.end - it.start + 1) : IntoIterNth(n)
  \/ \E n \in 0..(it.end - it.start + 1) : IntoIterNthBack(n)
  \/ IntoIterDrop
  \/ op.name \in {"init", "pop"} /\ \E r \in Ranges(length) : DrainIterNew(r[1], r[2], r[3], r[4])
  \/ DrainNext
  \/ DrainNextBack
  \/ \E n \in 0..(dr.iend - dr.istart + 1) : DrainNth(n)
  \/ \E n \in 0..(dr.iend - dr.istart + 1) : DrainNthBack(n)
  \/ DrainDrop

SpecIters == InitIters /\ [][NextIters]_vars

\* clone on containers of every length, with the clone of any one element
\* panicking or none, and the drop of the source.
InitClone == InitFilled(CloneBudget)

NextClone ==
  \/ \E p \in 0..length : Clone(p)
  \/ DropVec

SpecClone == InitClone /\ [][NextClone]_vars

\* Containers of capacity ZstCap holding zero-size elements: the borrowing
\* iterators of both kinds and one draining iterator.
ZstRanges ==
  {<<"Included", 6, "Excluded", 12>>, <<"Included", 0, "Excluded", 0>>,
   <<"Unbounded", 0, "Excluded", 4>>, <<"Included", 12, "Unbounded", 0>>}

InitZst ==
  /\ N = ZstCap
  /\ alive = TRUE
  /\ length \in 0..N
  /\ data = [i \in Cells |-> IF i < length THEN i ELSE Uninit]
  /\ status = [id \in Ids |-> IF id < length THEN "owned" ELSE "none"]
  /\ nextId = length
  /\ budget = 0
  /\ err = "ok"
  /\ op = MkOp("init", "ok", 0, 0, <<>>, <<>>)
  /\ pre = <<>>
  /\ dr = NoDrain
  /\ it = NoIter
  /\ bi = NoBorrow

NextZst ==
  \/ op.name = "init" /\ \E mutable \in BOOLEAN : Iter(mutable, 0)
  \/ op.name = "init" /\ \E mutable \in BOOLEAN : SliceIter(mutable, 0)
  \/ IterNext
  \/ IterNextBack
  \/ SliceIterNext
  \/ SliceIterNextBack
  \/ op.name = "init" /\ \E r \in ZstRanges : DrainIterNew(r[1], r[2], r[3], r[4])
  \/ DrainNext
  \/ DrainNextBack
  \/ DrainDrop

SpecZst == InitZst /\ [][NextZst]_vars

\* ================================================================= claims
\* Without(s, a, b): the sequence s with its elements at indices [a, b)
\* (counted from 0) taken out.
Without(s, a, b) == SubSeq(s, 1, a) \o SubSeq(s, b + 1, Len(s))

\* C1: after any sequence of container operations, panicking calls included,
\* the length counter stays within 0 <= length <= N.
C1_LengthWithinCapacity ==
  /\ length >= 0
  /\ length <= N
  /\ Cardinality(DOMAIN data) = N

\* A call has just panicked on a full, non-empty container.
C1_Witness == op.kind = "panic" /\ N > 0 /\ length = N

\* C2: the live elements are exactly those in slots [0, length): every such
\* slot holds an element the container owns, no element is there twice, no
\* operation has read a slot outside [0, length) or a moved-from value, and
\* every element the container still owns is in [0, length) (whatever sits in
\* [length, N) is uninitialised or a stale copy of something moved or dropped).
C2_LiveSlotsExactlyPrefix ==
  /\ err = "ok"
  /\ SoundRead(status, Contents)
  /\ \A id \in Ids : status[id] = "owned" => id \in Range(Contents)
  /\ \A i \in Cells : i >= length =>
       \/ data[i] = Uninit
       \/ status[data[i]] # "owned"
       \/ \E j \in Cells : j < length /\ data[j] = data[i]

\* An eager drain has moved elements out and the container keeps some, with
\* stale bytes left behind in a slot past the length.
C2_Witness ==
  /\ op.name = "drain" /\ op.kind = "ok" /\ Len(op.out) > 0 /\ length > 0
  /\ \E i \in Cells : i >= length /\ data[i] # Uninit

\* C3: once a drain iterator over [s, e) has been dropped, however many
\* next/next_back calls came before, the container holds original[0..s)
\* followed by original[e..L), with length L - (e - s).
C3_DrainDropCompacts ==
  op.name = "drain_drop" =>
    /\ op.a <= op.b /\ op.b <= Len(pre)
    /\ Contents = Without(pre, op.a, op.b)
    /\ length = Len(pre) - (op.b - op.a)

\* A drain over [1, 4) of five elements dropped without a call of next
\* leaves [e0, e4].
C3_Witness ==
  /\ op.name = "drain_drop" /\ op.a = 1 /\ op.b = 4 /\ op.out = <<>>
  /\ pre = <<0, 1, 2, 3, 4>>
  /\ Contents = <<0, 4>>

\* C4: every element of a drained range leaves the container exactly once:
\* yielded by next/next_back or dropped by the iterator's drop, never both,
\* never twice, never left behind.
C4_DrainedExactlyOnce ==
  /\ err = "ok"
  /\ dr.active =>
       LET rest == Block(data, dr.istart, dr.iend - dr.istart)
           rng == SubSeq(dr.orig, dr.s + 1, dr.e)
       IN /\ Range(dr.yielded) \cup Range(rest) = Range(rng)
          /\ NoDup(dr.yielded \o rest)
          /\ \A k \in DOMAIN dr.yielded : status[dr.yielded[k]] = "out"
          /\ \A k \in DOMAIN rest : status[rest[k]] = "owned"
  /\ op.name = "drain_drop" =>
       LET rng == SubSeq(pre, op.a + 1, op.b)
       IN /\ Range(op.out) \cup Range(op.dropped) = Range(rng)
          /\ NoDup(op.out \o op.dropped)
          /\ \A k \in DOMAIN op.out : status[op.out[k]] = "out"
          /\ \A k \in DOMAIN op.dropped : status[op.dropped[k]] = "dropped"

\* A drain consumed in part, from the back and then from the front, and
\* dropped with at least one element still in it.
C4_Witness ==
  /\ op.name = "drain_drop"
  /\ Len(op.out) = 2 /\ Len(op.dropped) >= 1
  /\ op.out[1] = pre[op.b] /\ op.out[2] = pre[op.a + 1]

\* C5: push on a container with length < N writes the value at index length
\* and adds one to length; the elements already there stay where they were.
C5_PushAppends ==
  (op.name = "push" /\ Len(pre) < N) =>
    /\ op.kind = "ok"
    /\ length = Len(pre) + 1
    /\ data[Len(pre)] = op.a
    /\ SubSeq(Contents, 1, Len(pre)) = pre

\* A push onto a container that held at least two elements.
C5_Witness == op.name = "push" /\ op.kind = "ok" /\ Len(pre) >= 2

\* C6: push on a full container (N == 0 included) panics and leaves length
\* and elements as they were.
C6_PushFullPanics ==
  (op.name = "push" /\ Len(pre) = N) =>
    /\ op.kind = "panic"
    /\ length = N
    /\ Contents = pre

\* A push has panicked on a full container that holds elements.
C6_Witness == op.name = "push" /\ op.kind = "panic" /\ N > 0 /\ Len(pre) = N

\* C7: the fallible mutators never panic; try_push on a full container hands
\* the value back in the error and changes nothing, and otherwise appends
\* like push; try_insert and try_extend_from_slice return an error and
\* change nothing when the result would not fit.
C7_TryMutators ==
  /\ op.name \in {"try_push", "try_insert", "try_extend_from_slice"} =>
       op.kind \in {"ok", "err"}
  /\ op.name = "try_push" =>
       IF Len(pre) < N
         THEN op.kind = "ok" /\ Contents = Append(pre, op.a)
         ELSE /\ op.kind = "err" /\ op.out = <<op.a>> /\ status[op.a] = "out"
              /\ Contents = pre
  /\ (op.name = "try_insert" /\ Len(pre) = N) => (op.kind = "err" /\ Contents = pre)
  /\ (op.name = "try_extend_from_slice" /\ Len(pre) + op.a > N) =>
       (op.kind = "err" /\ Contents = pre)

\* try_push has returned its value in an error from a full container.
C7_Witness == op.name = "try_push" /\ op.kind = "err" /\ N > 0 /\ op.out = <<op.a>>

\* C8: pop on a non-empty container returns the last element and takes one
\* off length, leaving the others; on an empty container it returns None
\* and length stays 0.
C8_Pop ==
  op.name = "pop" =>
    IF pre = <<>>
      THEN op.kind = "none" /\ op.out = <<>> /\ length = 0
      ELSE /\ op.kind = "ok"
           /\ op.out = <<pre[Len(pre)]>>
           /\ length = Len(pre) - 1
           /\ Contents = SubSeq(pre, 1, Len(pre) - 1)

\* A pop from a container of at least two elements.
C8_Witness == op.name = "pop" /\ op.kind = "ok" /\ Len(pre) >= 2

\* C9: remove(index) with index < length returns the element at index,
\* keeps [0, index), moves (index, length) one to the left in order and
\* takes one off length.
C9_Remove ==
  (op.name = "remove" /\ op.a < Len(pre)) =>
    /\ op.kind = "ok"
    /\ op.out = <<pre[op.a + 1]>>
    /\ length = Len(pre) - 1
    /\ Contents = Without(pre, op.a, op.a + 1)

\* remove(1) on the five elements [e0, e1, e2, e3, e4] returns e1 and
\* leaves [e0, e2, e3, e4].
C9_Witness ==
  /\ op.name = "remove" /\ op.a = 1 /\ op.out = <<1>>
  /\ pre = <<0, 1, 2, 3, 4>>
  /\ Contents = <<0, 2, 3, 4>>

C11_PanicBeforeMutation ==
  /\ (op.name = "remove" /\ op.a >= Len(pre)) =>
       /\ op.kind = "panic"
       /\ length = Len(pre)
       /\ Contents = pre
       /\ SoundRead(status, Contents)
  /\ (op.name = "insert" /\ (Len(pre) = N \/ op.a > Len(pre))) =>
       /\ op.kind = "panic"
       /\ length = Len(pre)
       /\ Contents = pre
       /\ SoundRead(status, Contents)
       /\ op.b \notin Range(Contents)

\* insert(1, v) has panicked on a full container of at least three elements.
C11_Witness ==
  /\ op.name = "insert" /\ op.kind = "panic" /\ op.a = 1
  /\ Len(pre) = N /\ N >= 3
  /\ Contents = pre

\* C12: drain, drain_iter and splice called with a range whose start > end
\* or whose end > length panic before any mutation: length and contents are
\* as they were, no element has changed hands and no iterator exists.
C12_RangePanicsUntouched ==
  (op.name \in {"drain", "drain_iter", "splice"} /\ (op.a > op.b \/ op.b > Len(pre))) =>
    /\ op.kind = "panic"
    /\ length = Len(pre)
    /\ Contents = pre
    /\ SoundRead(status, Contents)
    /\ op.out = <<>> /\ op.dropped = <<>>
    /\ ~dr.active

\* drain(5..=5) has panicked on the five elements [e0, e1, e2, e3, e4].
C12_Witness ==
  /\ op.name = "drain" /\ op.kind = "panic" /\ op.a = 5 /\ op.b = 6
  /\ pre = <<0, 1, 2, 3, 4>>
  /\ Contents = pre

\* C13: eager drain over a valid range [s, e) of a container of length L
\* returns original[s..e) in order, e - s elements now owned by the caller,
\* and leaves original[0..s) followed by original[e..L) in order with length
\* L - (e - s); drain(..) leaves the source empty.
C13_EagerDrain ==
  (op.name = "drain" /\ op.a <= op.b /\ op.b <= Len(pre)) =>
    /\ op.kind = "ok"
    /\ op.out = SubSeq(pre, op.a + 1, op.b)
    /\ Len(op.out) = op.b - op.a
    /\ \A k \in DOMAIN op.out : status[op.out[k]] = "out"
    /\ Contents = Without(pre, op.a, op.b)
    /\ length = Len(pre) - (op.b - op.a)
    /\ SoundRead(status, Contents)
    /\ (op.a = 0 /\ op.b = Len(pre)) => length = 0

\* The spec's scenario: remove(1) and insert(1, v) on five elements, then
\* drain(1..3) on [e0, v, e2, e3, e4] yields [v, e2] and leaves [e0, e3, e4].
C13_Witness ==
  /\ op.name = "drain" /\ op.kind = "ok" /\ op.a = 1 /\ op.b = 3
  /\ pre = <<0, 5, 2, 3, 4>>
  /\ op.out = <<5, 2>>
  /\ Contents = <<0, 3, 4>>

\* C14: round trip: when drain(..) has emptied a container and the container
\* is then extended with the drained sequence, it holds the original
\* contents in the original order and has the original length again.
C14_DrainExtendRoundTrip ==
  [][(/\ op.name = "drain" /\ op.kind = "ok" /\ op.a = 0 /\ op.b = Len(pre)
      /\ op'.name = "extend_from_drained")
     => (/\ Contents' = pre
         /\ length' = Len(pre)
         /\ SoundRead(status', Contents'))]_vars

\* Five elements drained by drain(..) are back in the emptied container.
C14_Witness ==
  /\ op.name = "extend_from_drained" /\ pre = <<>>
  /\ op.out = <<0, 1, 2, 3, 4>>
  /\ Contents = <<0, 1, 2, 3, 4>>

\* C15: truncate(new_length) with new_length < length drops exactly the
\* elements at [new_length, length), each once, keeps [0, new_length) and
\* sets length to new_length; with new_length >= length it changes neither
\* length nor ownership; in both cases no slot is written.
C15_Truncate ==
  [][op'.name = "truncate" =>
       /\ data' = data
       /\ err' = "ok"
       /\ IF op'.a < length
            THEN /\ op'.dropped = SubSeq(Contents, op'.a + 1, length)
                 /\ NoDup(op'.dropped)
                 /\ \A k \in DOMAIN op'.dropped :
                      status[op'.dropped[k]] = "owned" /\ status'[op'.dropped[k]] = "dropped"
                 /\ \A id \in Ids : id \notin Range(op'.dropped) => status'[id] = status[id]
                 /\ Contents' = SubSeq(Contents, 1, op'.a)
                 /\ length' = op'.a
            ELSE /\ op'.dropped = <<>>
                 /\ status' = status
                 /\ length' = length
                 /\ Contents' = Contents]_vars

\* truncate(2) on five elements has dropped e2, e3, e4 and left [e0, e1].
C15_Witness ==
  /\ op.name = "truncate" /\ op.a = 2
  /\ pre = <<0, 1, 2, 3, 4>>
  /\ op.dropped = <<2, 3, 4>>
  /\ Contents = <<0, 1>>

\* C16: truncate is idempotent: a second truncate(k) right after a first
\* truncate(k) drops nothing and leaves contents, length, slots and the set
\* of dropped elements as the first call left them.
C16_TruncateIdempotent ==
  [][(op.name = "truncate" /\ op'.name = "truncate" /\ op'.a = op.a) =>
       /\ op'.dropped = <<>>
       /\ length' = length
       /\ Contents' = Contents
       /\ data' = data
       /\ status' = status
       /\ err' = err]_vars

\* A second truncate(2) on the [e0, e1] that truncate(2) left of five
\* elements has dropped nothing.
C16_Witness ==
  /\ op.name = "truncate" /\ op.a = 2 /\ op.dropped = <<>>
  /\ pre = <<0, 1>>
  /\ Contents = <<0, 1>>
  /\ status[2] = "dropped" /\ status[4] = "dropped"

\* C17: clear() does what truncate(0) does: it drops every element of
\* [0, length) exactly once and sets length to 0, so the container is empty
\* afterwards, and a drop of the container right after it drops no element
\* a second time.
C17_ClearIsTruncateZero ==
  [][/\ op'.name = "clear" =>
          /\ length' = truncate_len(length, 0)
          /\ op'.dropped = truncate_dropped(data, length, 0)
          /\ length' = 0
          /\ op'.dropped = Contents
          /\ NoDup(Contents)
          /\ \A k \in DOMAIN Contents :
               status[Contents[k]] = "owned" /\ status'[Contents[k]] = "dropped"
          /\ \A id \in Ids : id \notin Range(Contents) => status'[id] = status[id]
          /\ data' = data
          /\ err' = "ok"
     /\ (op.name = "clear" /\ op'.name = "drop") =>
          /\ op'.dropped = <<>>
          /\ status' = status
          /\ err' = "ok"]_vars

\* clear() on five elements has dropped all five and left the container
\* empty.
C17_Witness ==
  /\ op.name = "clear" /\ length = 0
  /\ pre = <<0, 1, 2, 3, 4>>
  /\ op.dropped = <<0, 1, 2, 3, 4>>
  /\ \A id \in 0..4 : status[id] = "dropped"

\* C18: extend_from_slice(other) appends exactly the first
\* min(other.len(), N - length) elements of other, in order, after the
\* existing elements, which stay as they were; what does not fit is ignored
\* without a panic (the clamping loop never steps below zero), and a
\* capacity-0 container gets nothing.
C18_ExtendFromSlice ==
  /\ alive => \A k \in 0..MaxSlice : clamp_loop(length, k, N) = Min(k, N - length)
  /\ op.name = "extend_from_slice" =>
       LET fit == Min(op.a, N - Len(pre)) IN
       /\ op.kind = "ok"
       /\ Len(op.out) = op.a
       /\ op.b = fit
       /\ length = Len(pre) + fit
       /\ Contents = pre \o SubSeq(op.out, 1, fit)
       /\ \A k \in 1..fit : status[op.out[k]] = "owned"
       /\ \A k \in (fit + 1)..op.a : op.out[k] \notin Range(Contents)
       /\ N = 0 => length = 0

\* A slice of three handed to a container of capacity 3 holding one element:
\* two are appended, the third is ignored.
C18_Witness ==
  /\ op.name = "extend_from_slice" /\ op.kind = "ok"
  /\ N = 3 /\ Len(pre) = 1 /\ op.a = 3 /\ op.b = 2
  /\ Contents = pre \o SubSeq(op.out, 1, 2)

\* C19: new_from_slice(values) and from_iter(iter) given count items produce
\* a container of length min(count, N) holding the first min(count, N) items
\* in source order, and neither panics when count > N, N == 0 included.
C19_BulkConstructorsTruncate ==
  op.name \in {"new_from_slice", "from_iter"} =>
    LET count == op.a
        source == [j \in 1..count |-> nextId - count + j - 1]
        kept == Min(count, N)
    IN /\ op.kind = "ok"
       /\ alive
       /\ length = kept
       /\ Contents = SubSeq(source, 1, kept)
       /\ SoundRead(status, Contents)
       /\ \A j \in (kept + 1)..count : status[source[j]] # "owned"
       /\ op.name = "new_from_slice" => op.out = source
       /\ err = "ok"

\* from_iter over four items into a container of capacity 3 keeps the
\* first three.
C19_Witness ==
  /\ op.name = "from_iter" /\ op.a = 4 /\ N = 3
  /\ length = 3
  /\ Contents = <<nextId - 4, nextId - 3, nextId - 2>>

\* C20: dropping the owning iterator drops exactly the elements still in
\* [start, end), each exactly once, and touches no element outside that
\* range: what next/next_back yielded stays with the caller, and with
\* start == end nothing is dropped.
C20_IntoIterDrop ==
  [][op'.name = "into_iter_drop" =>
       LET rest == SubSeq(pre, it.start + 1, it.end) IN
       /\ it.start <= it.end /\ it.end <= Len(pre)
       /\ op'.dropped = rest
       /\ NoDup(rest)
       /\ \A k \in DOMAIN rest : status[rest[k]] = "owned" /\ status'[rest[k]] = "dropped"
       /\ \A id \in Ids : id \notin Range(rest) => status'[id] = status[id]
       /\ Range(it.yielded) \cap Range(rest) = {}
       /\ Range(it.yielded) \cup Range(rest) = Range(pre)
       /\ \A k \in DOMAIN it.yielded : status'[it.yielded[k]] = "out"
       /\ it.start = it.end => op'.dropped = <<>>
       /\ err' = "ok"]_vars

\* An owning iterator over five elements that yielded e0 from the front and
\* e4 from the back has been dropped, dropping e1, e2, e3.
C20_Witness ==
  /\ op.name = "into_iter_drop" /\ op.a = 1 /\ op.b = 4
  /\ pre = <<0, 1, 2, 3, 4>>
  /\ op.out = <<0, 4>>
  /\ op.dropped = <<1, 2, 3>>

\* C21: on the owning iterator, next yields the element at index start and
\* then adds one to start, next_back takes one off end and yields the
\* element at the new end, and both return None and change nothing when
\* start == end; whatever the interleaving, what has been yielded is exactly
\* the source's elements before start and from end on, each once, so an
\* exhausted iterator has yielded every element exactly once.
C21_IntoIterNextNextBack ==
  [][/\ op'.name = "into_iter_next" =>
          IF it.start = it.end
            THEN op'.kind = "none" /\ op'.out = <<>> /\ it' = it /\ status' = status
            ELSE /\ op'.kind = "ok"
                 /\ op'.out = <<pre[it.start + 1]>>
                 /\ it'.start = it.start + 1 /\ it'.end = it.end
                 /\ status[pre[it.start + 1]] = "owned"
                 /\ status'[pre[it.start + 1]] = "out"
     /\ op'.name = "into_iter_next_back" =>
          IF it.start = it.end
            THEN op'.kind = "none" /\ op'.out = <<>> /\ it' = it /\ status' = status
            ELSE /\ op'.kind = "ok"
                 /\ op'.out = <<pre[it.end]>>
                 /\ it'.end = it.end - 1 /\ it'.start = it.start
                 /\ status[pre[it.end]] = "owned"
                 /\ status'[pre[it.end]] = "out"
     /\ it'.active =>
          /\ NoDup(it'.yielded)
          /\ Range(it'.yielded) =
               {pre'[k] : k \in (1..it'.start) \cup ((it'.end + 1)..Len(pre'))}
          /\ Len(it'.yielded) = Len(pre') - (it'.end - it'.start)
          /\ err' = "ok"]_vars

\* An owning iterator over five elements, driven alternately from the front
\* and the back, is exhausted having yielded e0, e4, e1, e3, e2.
C21_Witness ==
  /\ it.active /\ it.start = it.end
  /\ pre = <<0, 1, 2, 3, 4>>
  /\ it.yielded = <<0, 4, 1, 3, 2>>

C23_BorrowNextBack ==
  [][/\ op'.name = "iter_next_back" =>
          IF bi.start = bi.end
            THEN /\ op'.kind = "none" /\ op'.out = <<>>
                 /\ bi' = bi
                 /\ UNCHANGED <<data, length, status, err, alive>>
            ELSE /\ op'.kind = "ok"
                 /\ op'.out = << <<bi.end - 1, pre[bi.end]>> >>
                 /\ bi'.end = bi.end - 1
                 /\ bi'.start = bi.start
                 /\ bi'.yielded = bi.yielded \o op'.out
                 /\ UNCHANGED <<data, length, status, err, alive>>
     /\ (bi'.active /\ bi'.start = 0) =>
          /\ bi'.end >= 0
          /\ bi'.yielded = [j \in 1..(Len(pre') - bi'.end) |->
                              <<Len(pre') - j, pre'[Len(pre') - j + 1]>>]
          /\ Contents' = pre'
          /\ err' = "ok"]_vars

\* The first next_back of a raw-pointer iterator over five elements has
\* produced a reference to slot 5, one past the last element.
C23_Witness ==
  /\ bi.active /\ bi.impl = "ptr"
  /\ op.name = "iter_next_back" /\ op.kind = "ok"
  /\ pre = <<0, 1, 2, 3, 4>>
  /\ op.a = 0 /\ op.b = 5
  /\ op.out[1][1] = 5
  /\ bi.end = 4

BorrowCalls == {"iter_next", "iter_next_back", "iter_nth", "iter_nth_back"}
IntoIterCalls ==
  {"into_iter_next", "into_iter_next_back", "into_iter_nth", "into_iter_nth_back"}
DrainCalls == {"drain_next", "drain_next_back", "drain_nth", "drain_nth_back"}

\* C25: the iterators are fused.  When the last call of next, next_back, nth
\* or nth_back on a borrowing, owning or draining iterator returned None, the
\* iterator is exhausted (start = end) and every further call of any of the
\* four also returns None and leaves start and end where they are.
C25_Fused ==
  [][/\ (op'.name \in BorrowCalls /\ op'.kind = "none") =>
          bi'.active /\ bi'.start = bi'.end
     /\ (op'.name \in IntoIterCalls /\ op'.kind = "none") =>
          it'.active /\ it'.start = it'.end
     /\ (op'.name \in DrainCalls /\ op'.kind = "none") =>
          dr'.active /\ dr'.istart = dr'.iend
     /\ (op.name \in BorrowCalls /\ op.kind = "none" /\ op'.name \in BorrowCalls) =>
          /\ op'.kind = "none" /\ op'.out = <<>>
          /\ bi'.start = bi.start /\ bi'.end = bi.end
     /\ (op.name \in IntoIterCalls /\ op.kind = "none" /\ op'.name \in IntoIterCalls) =>
          /\ op'.kind = "none" /\ op'.out = <<>>
          /\ it'.start = it.start /\ it'.end = it.end
     /\ (op.name \in DrainCalls /\ op.kind = "none" /\ op'.name \in DrainCalls) =>
          /\ op'.kind = "none" /\ op'.out = <<>>
          /\ dr'.istart = dr.istart /\ dr'.iend = dr.iend
     /\ (op.kind = "none" /\ op.name \in BorrowCalls \cup IntoIterCalls \cup DrainCalls) =>
          op'.name \in BorrowCalls \cup IntoIterCalls \cup DrainCalls
                       \cup {"into_iter_drop", "drain_drop"}]_vars

\* A raw-pointer iterator over four elements after nth(2), nth(0) and two
\* more calls that both returned None, the last of them nth_back(0).
C25_Witness ==
  /\ bi.active /\ bi.impl = "ptr"
  /\ pre = <<0, 1, 2, 3>>
  /\ bi.yielded = << <<0, 0>>, <<1, 1>>, <<2, 2>>, <<3, 3>> >>
  /\ op.name = "iter_nth_back" /\ op.kind = "none"
  /\ bi.start = 4 /\ bi.end = 4

\* C26: on an iterator freshly created over a container of length L, nth(i)
\* yields the element at index i when i < L and None otherwise, and
\* nth_back(i) yields the element at index L - 1 - i when i < L and None
\* otherwise; after nth returned the element at some index the remaining
\* items are exactly those after it, and after nth_back exactly those before
\* it.  Stated for the borrowing iterators and for the owning iterator.
C26_NthNthBack ==
  [][/\ (op.name \in {"iter", "iter_mut"} /\ op'.name = "iter_nth") =>
          IF op'.a < Len(pre)
            THEN op'.kind = "ok" /\ op'.out = << <<op'.a, pre[op'.a + 1]>> >>
            ELSE op'.kind = "none" /\ op'.out = <<>>
     /\ (op.name \in {"iter", "iter_mut"} /\ op'.name = "iter_nth_back") =>
          IF op'.a < Len(pre)
            THEN /\ op'.kind = "ok"
                 /\ op'.out = << <<Len(pre) - 1 - op'.a, pre[Len(pre) - op'.a]>> >>
            ELSE op'.kind = "none" /\ op'.out = <<>>
     /\ (op'.name = "iter_nth" /\ op'.kind = "ok") =>
          /\ bi'.start = op'.out[1][1] + 1 /\ bi'.end = bi.end
          /\ op'.out[1][1] = bi.start + op'.a
     /\ (op'.name = "iter_nth_back" /\ op'.kind = "ok") =>
          /\ bi'.end = op'.out[1][1] /\ bi'.start = bi.start
          /\ op'.out[1][1] = bi.end - 1 - op'.a
     /\ (op.name = "into_iter" /\ op'.name = "into_iter_nth") =>
          IF op'.a < Len(pre)
            THEN op'.kind = "ok" /\ op'.out = <<pre[op'.a + 1]>>
            ELSE op'.kind = "none" /\ op'.out = <<>>
     /\ (op.name = "into_iter" /\ op'.name = "into_iter_nth_back") =>
          IF op'.a < Len(pre)
            THEN op'.kind = "ok" /\ op'.out = <<pre[Len(pre) - op'.a]>>
            ELSE op'.kind = "none" /\ op'.out = <<>>
     /\ (op'.name = "into_iter_nth" /\ op'.kind = "ok") =>
          /\ it'.start = it.start + op'.a + 1 /\ it'.end = it.end
          /\ op'.out = <<it.data[it.start + op'.a]>>
     /\ (op'.name = "into_iter_nth_back" /\ op'.kind = "ok") =>
          /\ it'.end = it.end - op'.a - 1 /\ it'.start = it.start
          /\ op'.out = <<it.data[it.end - 1 - op'.a]>>]_vars

\* nth_back(0) on a fresh raw-pointer iterator over five elements has
\* produced a reference to slot 5 and left end at 4.
C26_Witness ==
  /\ bi.active /\ bi.impl = "ptr"
  /\ pre = <<0, 1, 2, 3, 4>>
  /\ op.name = "iter_nth_back" /\ op.kind = "ok" /\ op.a = 0 /\ op.b = 5
  /\ op.out[1][1] = 5
  /\ bi.start = 0 /\ bi.end = 4

\* C27: dropping the container drops exactly the elements at [0, length), in
\* index order and each once; every element that left the container before
\* (popped, removed, drained or cleared) keeps the state it had and is not
\* dropped again.
C27_DropVec ==
  [][op'.name = "drop" =>
       /\ alive /\ ~alive'
       /\ op'.dropped = Contents
       /\ NoDup(Contents)
       /\ \A k \in DOMAIN Contents :
            status[Contents[k]] = "owned" /\ status'[Contents[k]] = "dropped"
       /\ \A id \in Ids : id \notin Range(Contents) => status'[id] = status[id]
       /\ \A id \in Ids : status'[id] # "owned"
       /\ err = "ok" /\ err' = "ok"]_vars

\* A container that was pushed three elements, lost the last one to pop and
\* was dropped with two: slot 2 still holds the popped element's bytes.
C27_Witness ==
  /\ op.name = "drop" /\ ~alive
  /\ N = 3
  /\ op.dropped = <<0, 1>>
  /\ data[2] = 2 /\ status[2] = "out"
  /\ status[0] = "dropped" /\ status[1] = "dropped"

\* C28: clone is panic-safe.  When the clone of the element at index k
\* panics, the source keeps its length and its elements, all still live;
\* exactly the k elements cloned before are dropped, each once, and no other
\* element changes state (no leak, no double drop); a drop of the source
\* afterwards drops each of its elements exactly once and leaves the clones
\* as they were.
C28_ClonePanicSafe ==
  [][/\ (op'.name = "clone" /\ op'.kind = "panic") =>
          /\ alive /\ alive'
          /\ data' = data /\ length' = length
          /\ Contents' = Contents /\ pre' = Contents
          /\ \A k \in DOMAIN Contents :
               status[Contents[k]] = "owned" /\ status'[Contents[k]] = "owned"
          /\ op'.a < length
          /\ Len(op'.dropped) = op'.a
          /\ NoDup(op'.dropped)
          /\ op'.out = <<>>
          /\ \A id \in Range(op'.dropped) :
               status[id] = "none" /\ status'[id] = "dropped"
          /\ \A id \in Ids : id \notin Range(op'.dropped) => status'[id] = status[id]
          /\ err' = "ok"
     /\ (op.name = "clone" /\ op.kind = "panic" /\ op'.name = "drop") =>
          /\ op'.dropped = Contents
          /\ Contents = pre
          /\ NoDup(Contents)
          /\ \A k \in DOMAIN Contents :
               status[Contents[k]] = "owned" /\ status'[Contents[k]] = "dropped"
          /\ \A id \in Ids : id \notin Range(Contents) => status'[id] = status[id]
          /\ \A id \in Ids : status'[id] # "owned"
          /\ err' = "ok"]_vars

\* A container of five elements whose clone panicked at the fourth element
\* (three clones made and dropped) and which was dropped afterwards.
C28_Witness ==
  /\ op.name = "drop" /\ ~alive
  /\ op.dropped = <<0, 1, 2, 3, 4>>
  /\ nextId = 8
  /\ \A id \in 0..7 : status[id] = "dropped"

\* C29: splice of the range [s, e) with r replacement items on a container
\* of length L, when L - (e - s) + r <= N: the elements the iterator yields
\* and the ones it drops are together original[s..e) in order, and after its
\* drop the container holds original[0..s), the r replacement items in
\* order, then original[e..L), with length L - (e - s) + r.
C29_Splice ==
  [][(/\ op'.name = "splice"
      /\ op'.a <= op'.b /\ op'.b <= length
      /\ length - (op'.b - op'.a) + op'.k <= N) =>
       LET s == op'.a
           e == op'.b
           r == op'.k
           replacement == [j \in 1..r |-> nextId + j - 1]
       IN /\ op'.kind = "ok"
          /\ op'.out \o op'.dropped = SubSeq(Contents, s + 1, e)
          /\ Contents' = SubSeq(Contents, 1, s) \o replacement
                           \o SubSeq(Contents, e + 1, length)
          /\ length' = length - (e - s) + r
          /\ pre' = Contents
          /\ \A id \in Range(op'.out) : status'[id] = "out"
          /\ \A id \in Range(op'.dropped) : status'[id] = "dropped"
          /\ \A id \in Range(replacement) : status[id] = "none" /\ status'[id] = "owned"
          /\ \A id \in Ids : id \notin Range(replacement) \cup Range(SubSeq(Contents, s + 1, e))
               => status'[id] = status[id]
          /\ \A k \in DOMAIN Contents' : status'[Contents'[k]] = "owned"
          /\ err' = "ok"]_vars

\* splice(1..2, two items) on four elements in five slots, the removed
\* element taken from the iterator: more replacement items than removed.
C29_Witness ==
  /\ op.name = "splice" /\ op.kind = "ok"
  /\ N = 5
  /\ pre = <<0, 1, 2, 3>>
  /\ op.a = 1 /\ op.b = 2 /\ op.k = 2
  /\ op.out = <<1>>
  /\ Contents = <<0, 4, 5, 2, 3>>

C31_ZeroSize ==
  [][/\ op'.name \in {"iter", "iter_mut"} =>
          /\ bi'.size = 0 => borrow_size_hint(bi') = length
          /\ length' = length
     /\ (op'.name \in {"iter_next", "iter_next_back"} /\ bi'.size = 0) =>
          /\ op'.kind = "none" <=> Len(bi.yielded) = Len(pre)
          /\ op'.kind = "ok" => Len(bi'.yielded) = Len(bi.yielded) + 1
          /\ borrow_size_hint(bi') = Len(pre) - Len(bi'.yielded)
          /\ length' = Len(pre)
     /\ (op'.name = "drain_iter" /\ op'.kind = "ok") =>
          /\ drain_size_hint(dr') = op'.b - op'.a
          /\ length' = op'.a
     /\ op'.name = "drain_drop" =>
          length' = Len(pre') - (op'.b - op'.a)]_vars

\* next on a fresh raw-pointer iterator over sixteen zero-size elements has
\* returned None with nothing yielded: start and end were the same address.
C31_Witness ==
  /\ N = 16 /\ length = 16
  /\ bi.active /\ bi.impl = "ptr" /\ bi.size = 0
  /\ op.name = "iter_next" /\ op.kind = "none"
  /\ bi.yielded = <<>>
  /\ bi.start = bi.end

\* The tail the draining iterator d set aside: the elements after the range.
drain_tail(d) == SubSeq(d.orig, d.e + 1, Len(d.orig))

\* Every element of the range of the draining iterator d has been read out.
drain_consumed(d) ==
  /\ d.istart = d.iend
  /\ \A k \in (d.s + 1)..d.e : status[d.orig[k]] \in {"out", "dropped"}

\* C32: the drop of a draining iterator runs its statements in one order,
\* each once: the un-yielded elements of the range are read out and dropped;
\* only then is the tail copied to the slots starting at the container's
\* current length, which stays as it is; only then is the length set to head
\* plus tail, and the drop is over. The length is never raised while the
\* tail is still only at its old position, and with an empty tail neither
\* the storage nor the length changes.
C32_DrainDropOrder ==
  [][/\ (dr.active /\ dr.pc \in {"live", "loop"} /\ dr'.active) =>
          /\ dr'.pc \in {"live", "loop", "copy_to"}
          /\ dr'.pc = "copy_to" => dr.istart = dr.iend /\ dr.length > 0
          /\ data' = data /\ length' = length
     /\ (dr.active /\ dr.pc = "copy_to") =>
          /\ drain_consumed(dr)
          /\ data' = copy_to(data, dr.e, length, Len(drain_tail(dr)))
          /\ length' = length /\ length = dr.s
          /\ dr'.active /\ dr'.pc = "set_len"
     /\ (dr.active /\ dr.pc = "set_len") =>
          /\ drain_consumed(dr)
          /\ Block(data, length, dr.length) = drain_tail(dr)
          /\ length' = dr.s + Len(drain_tail(dr))
          /\ data' = data
          /\ ~dr'.active
     /\ length' > length =>
          /\ dr.active /\ dr.pc = "set_len"
          /\ Block(data, length, dr.length) = drain_tail(dr)
     /\ (dr.active /\ ~dr'.active) =>
          /\ drain_consumed(dr)
          /\ dr.pc = "set_len" \/ dr.length = 0
          /\ Contents' = Without(dr.orig, dr.s, dr.e)
     /\ (dr.active /\ dr.length = 0) => data' = data /\ length' = length]_vars

\* A drop has finished that had elements left to drop and a tail to move
\* down over a gap, after the caller had taken some elements.
C32_Witness ==
  /\ op.name = "drain_drop"
  /\ op.out # <<>> /\ op.dropped # <<>>
  /\ op.a < op.b /\ op.b < Len(pre)
  /\ Contents = Without(pre, op.a, op.b)
  /\ ~dr.active

\* C33: from the creation of a draining iterator until its drop sets the
\* length, the container's length is the start of the removed range, the
\* iterator's start field is the end of the range and its length field is
\* the original length minus the end of the range; after the drop the
\* length is head plus tail, at most the original length, at most N.
C33_DrainFields ==
  /\ dr.active =>
       /\ length = dr.s
       /\ dr.start = dr.e
       /\ dr.length = Len(dr.orig) - dr.e
       /\ dr.s <= dr.e /\ dr.e <= Len(dr.orig) /\ Len(dr.orig) <= N
  /\ op.name = "drain_drop" =>
       /\ length = op.a + (Len(pre) - op.b)
       /\ length <= Len(pre)
       /\ Len(pre) <= N

\* A draining iterator over a range inside the container, some elements
\* taken, is in its drop: the loop is over and the tail not yet moved.
C33_Witness ==
  /\ dr.active /\ dr.pc = "copy_to"
  /\ 0 < dr.s /\ dr.s < dr.e /\ dr.e < Len(dr.orig)
  /\ dr.yielded # <<>>
  /\ length = dr.s /\ dr.start = dr.e

\* The storage of a container whose contents are the sequence s.
stored(s) == [i \in Cells |-> IF i < Len(s) THEN s[i + 1] ELSE Uninit]

Reverse(s) == [k \in 1..Len(s) |-> s[Len(s) - k + 1]]

\* C34: on the same container and the same valid range, drain(range) and
\* drain_iter(range) collected to its end by next and then dropped give the
\* same removed sequence and leave the same contents and length; collected
\* to its end by next_back, the iterator gives that sequence reversed.
C34_DrainAgree ==
  /\ (op.name = "drain" /\ op.kind = "ok") =>
       /\ op.out = drain_values(stored(pre), op.a, op.b)
       /\ Contents = as_slice(drain_shift(stored(pre), op.a, op.b, Len(pre)),
                              Len(pre) - (op.b - op.a))
  /\ op.name = "drain_drop" =>
       /\ Contents = as_slice(drain_shift(stored(pre), op.a, op.b, Len(pre)),
                              Len(pre) - (op.b - op.a))
       /\ length = Len(pre) - Len(drain_values(stored(pre), op.a, op.b))
  /\ (dr.active /\ dr.istart = dr.iend /\ dr.iend = dr.e) =>
       dr.yielded = drain_values(stored(dr.orig), dr.s, dr.e)
  /\ (dr.active /\ dr.istart = dr.iend /\ dr.istart = dr.s) =>
       dr.yielded = Reverse(drain_values(stored(dr.orig), dr.s, dr.e))

\* A draining iterator over two or more elements with a tail behind them was
\* collected to its end by next_back and dropped.
C34_Witness ==
  /\ op.name = "drain_drop" /\ op.dropped = <<>>
  /\ Len(op.out) >= 2 /\ op.b < Len(pre)
  /\ op.out = Reverse(SubSeq(pre, op.a + 1, op.b))
  /\ Contents = Without(pre, op.a, op.b)

\* The positions a borrowing iterator has handed out references to.
yielded_slots(b) == [j \in 1..Len(b.yielded) |-> b.yielded[j][1]]

\* C35: however next and next_back are interleaved on a borrowing iterator
\* over a container of length L, every reference it yields is to a position
\* in [0, L), no position is yielded twice (from the front and the back, or
\* otherwise), and when a call first reports exhaustion exactly L elements
\* have been yielded, every index in [0, L) once.
C35_Interleaving ==
  bi.active =>
    /\ \A j \in 1..Len(bi.yielded) :
         yielded_slots(bi)[j] >= 0 /\ yielded_slots(bi)[j] < Len(pre)
    /\ NoDup(yielded_slots(bi))
    /\ Len(bi.yielded) <= Len(pre)
    /\ (op.name \in {"iter_next", "iter_next_back"} /\ op.kind = "none") =>
         /\ Len(bi.yielded) = Len(pre)
         /\ Range(yielded_slots(bi)) = 0..(Len(pre) - 1)

\* A raw-pointer iterator over two elements was run to exhaustion from the
\* back: it handed out positions 2 and 1 and never position 0.
C35_Witness ==
  /\ bi.active /\ bi.impl = "ptr"
  /\ Len(pre) = 2
  /\ op.name = "iter_next_back" /\ op.kind = "none"
  /\ yielded_slots(bi) = <<2, 1>>

\* C36: for the owning iterator 0 <= start <= end <= length of the source
\* container <= N in every state, so end - start never underflows; once
\* start = end, next and next_back return None and leave start and end.
C36_IntoIterBounds ==
  [][/\ it'.active =>
          /\ 0 <= it'.start /\ it'.start <= it'.end
          /\ it'.end <= Len(pre') /\ Len(pre') <= N
          /\ into_iter_size_hint(it') >= 0
     /\ (it.active /\ it.start = it.end
           /\ op'.name \in {"into_iter_next", "into_iter_next_back"}) =>
          /\ op'.kind = "none" /\ op'.out = <<>>
          /\ it'.active /\ it'.start = it.start /\ it'.end = it.end]_vars

\* An owning iterator emptied from both ends, start = end in the middle of
\* the array, has answered None to next_back.
C36_Witness ==
  /\ it.active /\ it.start = it.end
  /\ 0 < it.start /\ it.end < Len(pre)
  /\ op.name = "into_iter_next_back" /\ op.kind = "none"
  /\ Len(it.yielded) = Len(pre)

C38_FromIterPulls ==
  op.name = "from_iter" =>
    LET count == op.a
        pulled == op.b
        source == [j \in 1..count |-> nextId - count + j - 1]
    IN IF count <= N
         THEN /\ pulled = count
              /\ op.dropped = <<>>
              /\ Contents = source
         ELSE /\ pulled = N + 1
              /\ Contents = SubSeq(source, 1, N)
              /\ op.dropped = <<source[N + 1]>>
              /\ status[source[N + 1]] = "dropped"
              /\ \A j \in (N + 2)..count : status[source[j]] = "out"

\* from_iter over four items into a container of capacity 2 has pulled
\* three, kept two, dropped the third and left the fourth with the source.
C38_Witness ==
  /\ op.name = "from_iter" /\ op.a = 4 /\ N = 2
  /\ op.b = 3
  /\ length = 2
  /\ op.dropped = <<nextId - 2>>
  /\ status[nextId - 1] = "out"

\* C39: the clamping loop of extend_from_slice, entered with length <= N,
\* terminates: every call that has entered the loop leaves it; it leaves it
\* with added_length = min(other.len(), N - length), after at most
\* other.len() decrements, and added_length is never taken below zero.
C39_ClampLoopTerminates ==
  /\ [](op.name = "extend_from_slice" =>
          /\ op.kind # "underflow"
          /\ op.b >= 0
          /\ op.a - op.b >= 0 /\ op.a - op.b <= op.a
          /\ op.kind = "ok" =>
               /\ op.b = Min(op.a, N - Len(pre))
               /\ op.b = clamp_loop(Len(pre), op.a, N)
               /\ length = Len(pre) + op.b)
  /\ (op.kind = "loop") ~> (op.kind = "ok")

\* The loop was entered with three items for a container with room for one
\* and has been left after two decrements.
C39_Witness ==
  /\ op.name = "extend_from_slice" /\ op.kind = "ok"
  /\ op.a = 3 /\ op.b = 1
  /\ Len(pre) = N - 1 /\ length = N

====
